---- MODULE Spec2Model ----
(***************************************************************************)
(* Model of the sensing/actuation pipeline of rust-assignment:             *)
(*   - DataProcessor (src/src/sensor/processor.rs) with the statistics of  *)
(*     rolling_stats::Stats and SensorData::detect_anomaly,                *)
(*   - PIDController (src/src/actuator/controller.rs),                     *)
(*   - the command path: generate_actuator_command, from_sensor_data, the  *)
(*     sensor binary, run_transmitter and run_actuator_system.             *)
(*   - Scheduler (src/src/actuator/scheduler.rs),                          *)
(*   - MetricsCollector and run_metrics_collector (common/metrics.rs),     *)
(*   - the pipeline: sensor array, run_processor, run_transmitter          *)
(*     (src/sensors/transmitter.rs) and ReceiverTask (actuator/receiver.rs)*)
(*   - DataTransmitter (src/src/sensor/transmitter.rs),                    *)
(*   - the two stages of main.rs with its PIDController and RoboticArm.    *)
(* f64 values are modelled as exact rationals <<numerator, denominator>>   *)
(* with a positive denominator, in lowest terms; sqrt is rounded down to a *)
(* multiple of 1/SqrtScale.                                                *)
(***************************************************************************)
EXTENDS Integers, Sequences, FiniteSets, TLC

VARIABLES
    moving_averages,     \* DataProcessor.moving_averages: sensor_id -> Stats or NoStats
    anomaly_thresholds,  \* DataProcessor.anomaly_thresholds: SensorType -> f64
    raw_data,            \* the reading last received by run_processor (before process)
    processed_data,      \* the reading last returned by DataProcessor::process
    proc_threshold,      \* threshold of DataProcessor::process: the one it looked up last
    seen,                \* history: sensor_id -> [n, sum] of the raw values passed so far
    actuator_tx,         \* commands sent by run_processor on the actuator channel
    tx,                  \* number of processed readings forwarded on the data channel
    pid,                 \* the PIDController: kp, ki, kd, prev_error, integral
    pid_out,             \* the value of the ControlCommand last returned by compute
    pid_hist,            \* history: the (setpoint, measurement, dt) of every compute call
    now,                 \* the clock, in milliseconds
    bin_sent,            \* history: commands the sensor binary sent on command_tx
    command_rx,          \* channel from the sensor binary to run_transmitter
    command_queue,       \* the broker's actuator command queue
    feedback_queue,      \* the broker's actuator feedback queue
    forwarded,           \* commands run_actuator_system forwarded, with the time taken
    acked,               \* number of deliveries acknowledged by run_actuator_system
    amqp_pc,             \* position of the AMQP run_transmitter: run, returned
    send_failures,       \* history: number of publishes that failed
    actuator_program,    \* which consumer serves the command queue: run_actuator_system
                         \* (actuator/system.rs) or the actuator binary (bin/actuator.rs)
    act_pc,              \* position of the consumer loop: next, publish, ack, returned
    consumed,            \* history: the commands of the deliveries consumed
    transmitter,         \* a DataTransmitter: connection_type, endpoint and shared_mem_name
                         \* (configured or not), connected, tcp_connection (present or not)
    dt_result,           \* history: the last call on the DataTransmitter, its result and
                         \* the transport it used
    dt_calls,            \* history: number of calls made on the DataTransmitter
    sched_interval,      \* Scheduler.interval, in milliseconds
    sched_pc,            \* position of the scheduler thread: new, top, after, stopped
    next_instant,        \* next_instant of Scheduler::start, relative to the current instant
    last_advance,        \* history: by how much the last iteration advanced next_instant
    last_duration,       \* history: how long the last task invocation lasted
    lag,                 \* history: how far behind next_instant the last invocation began
    since_end,           \* history: time elapsed since the last invocation finished
    slept,               \* history: the scheduler slept after the last invocation
    ever_slept,          \* history: the scheduler has slept at least once
    invoked,             \* history: the task has been invoked at least once
    metrics,             \* MetricsCollector.metrics: operation -> samples
    metrics_rx,          \* the metrics channel read by run_metrics_collector
    metrics_open,        \* some sender of the metrics channel is still alive
    met_sent,            \* number of samples sent on the metrics channel
    met_pc,              \* position of run_metrics_collector: tick, drain, stopped
    report_interval,     \* MetricsCollector.report_interval, in milliseconds
    since_report,        \* last_report_time.elapsed(), in milliseconds
    window,              \* history: the samples added since the last clear_metrics
    reports,             \* history: every report generated, with what it was made from
    added,               \* history: every sample passed to add_metrics
    rep_pc,              \* position of a reporter sharing the collector: idle, report,
                         \* between, clear
    sensor_rx,           \* channel from the sensor array to run_processor
    sensor_open,         \* some sender of the sensor channel is still alive
    generated,           \* number of readings the sensor array has sent
    proc_pc,             \* position of run_processor: run, done
    data_ch,             \* channel from run_processor (tx) to run_transmitter (rx)
    trans_pc,            \* position of run_transmitter: setup, run, done
    act_ch,              \* channel from run_transmitter to ReceiverTask
    recv_pc,             \* position of ReceiverTask::run: recv, slot, write, metrics, push, done
    recv_sensor_data,    \* sensor_data of ReceiverTask::run: the reading being handled
    shared_sensor_data,  \* the shared latest-value slot
    slot_lock,           \* holder of the lock of the slot
    metrics_lock,        \* holder of the lock of MetricsCollector.metrics
    proc_in,             \* history: the readings run_processor received
    proc_out,            \* history: the readings run_processor sent on tx
    handled,             \* history: the readings ReceiverTask::run received
    main_sensor_ch,      \* main.rs: the bounded channel sensor_tx -> sensor_rx
    main_feedback_ch,    \* main.rs: the bounded channel feedback_tx -> feedback_rx
    student_a,           \* position of student_a_sensor_module: top, send, backoff,
                         \* panicked
    student_b,           \* position of student_b_actuator_module: recv, backoff_recv,
                         \* execute, feedback, backoff_send, panicked
    a_filtered_data,     \* filtered_data of the sensor stage, while it is sending it
    b_feedback,          \* feedback of the actuator stage, while it is sending it
    b_command_queue,     \* command_queue of the actuator stage
    a_consecutive_errors,\* consecutive_errors of the sensor stage
    b_consecutive_errors,\* consecutive_errors of the actuator stage
    a_send_errors,       \* sensor_metrics.send_errors
    b_receive_errors,    \* actuator_metrics.receive_errors
    b_send_errors,       \* actuator_metrics.send_errors
    a_sample,            \* history: the sample of the sensor stage's current iteration:
                         \* anomalies detected, times recorded, whether it was sent
    a_errors_since_success, \* history: channel errors of the sensor stage since its
                         \* last successful send or received feedback
    b_errors_since_success, \* history: channel errors of the actuator stage since its
                         \* last successful receive or send
    b_command,           \* command of the actuator stage: the one taken for execution
    arm_current_force,   \* RoboticArm.current_force
    arm_calls,           \* history: the apply_force calls made on an arm driven alone
    main_pid,            \* a PIDController of main.rs: kp, ki, kd, previous_error,
                         \* integral, dt
    main_pid_out         \* the value last returned by its compute

procVars == <<moving_averages, anomaly_thresholds, raw_data, processed_data, proc_threshold, seen,
              tx>>
pidVars == <<pid, pid_out, pid_hist>>
actVars == <<actuator_program, act_pc, consumed>>
dtVars == <<transmitter, dt_result, dt_calls>>
cmdVars == <<now, bin_sent, command_rx, command_queue, feedback_queue, forwarded, acked,
             amqp_pc, send_failures, actVars, dtVars>>
schedVars == <<sched_interval, sched_pc, next_instant, last_advance, last_duration, lag,
               since_end, slept, ever_slept, invoked>>
metVars == <<metrics, metrics_rx, metrics_open, met_sent, met_pc, report_interval,
             since_report, window, reports, added>>
pipeVars == <<sensor_rx, sensor_open, generated, proc_pc, data_ch, trans_pc, act_ch,
              recv_pc, recv_sensor_data, shared_sensor_data, slot_lock, metrics_lock, proc_in,
              proc_out, handled>>
sensorSide == <<student_a, a_filtered_data, a_consecutive_errors, a_send_errors, a_sample,
                a_errors_since_success>>
actuatorSide == <<student_b, b_feedback, b_command_queue, b_consecutive_errors,
                  b_receive_errors, b_send_errors, b_errors_since_success, b_command,
                  arm_current_force>>
armAlone == <<arm_calls, main_pid, main_pid_out>>
mainVars == <<main_sensor_ch, main_feedback_ch, sensorSide, actuatorSide, armAlone>>
exceptSched == <<procVars, actuator_tx, pidVars, cmdVars, metVars, pipeVars, rep_pc, mainVars>>
exceptMet == <<procVars, actuator_tx, pidVars, cmdVars, schedVars, pipeVars, rep_pc, mainVars>>
exceptMain == <<procVars, actuator_tx, pidVars, cmdVars, schedVars, metVars, pipeVars, rep_pc>>
extVars == <<schedVars, metVars, pipeVars, rep_pc, mainVars>>
vars == <<procVars, actuator_tx, pidVars, cmdVars, extVars>>

----------------------------------------------------------------------------
(* Bounds *)

MaxReadings == 10
SqrtScale == 1000
MaxCalls == 3
MaxCommands == 2
MaxTime == 1200
MaxTaskMs == 7
MaxSamples == 2
MaxReports == 2
MaxPipe == 2
MaxErrors == 12

----------------------------------------------------------------------------
(* f64 arithmetic as exact rationals *)

Abs(n) == IF n < 0 THEN 0 - n ELSE n

\* the operators bind their arguments to values before they use them, as f64
\* arguments are passed by value
GCD(a, b) == LET gcd[x \in Int, y \in Int] == IF y = 0 THEN x ELSE gcd[y, x % y] IN gcd[a, b]

Rat(n, d) ==
    LET rat[x \in Int, y \in Int] ==
            LET s == IF y < 0 THEN 0 - 1 ELSE 1
                g == GCD(Abs(x), Abs(y))
            IN  <<(s * x) \div g, (s * y) \div g>>
    IN  rat[n, d]

Zero == <<0, 1>>
One == <<1, 1>>

RAdd(a, b) == LET f[x \in Any, y \in Any] == Rat(x[1] * y[2] + y[1] * x[2], x[2] * y[2]) IN f[a, b]
RSub(a, b) == LET f[x \in Any, y \in Any] == Rat(x[1] * y[2] - y[1] * x[2], x[2] * y[2]) IN f[a, b]
RMul(a, b) == LET f[x \in Any, y \in Any] == Rat(x[1] * y[1], x[2] * y[2]) IN f[a, b]
RDiv(a, b) == LET f[x \in Any, y \in Any] == Rat(x[1] * y[2], x[2] * y[1]) IN f[a, b]
RLt(a, b) == LET f[x \in Any, y \in Any] == x[1] * y[2] < y[1] * x[2] IN f[a, b]
RLe(a, b) == LET f[x \in Any, y \in Any] == x[1] * y[2] <= y[1] * x[2] IN f[a, b]
RAbs(a) == LET f[x \in Any] == <<Abs(x[1]), x[2]>> IN f[a]
RMin(a, b) == LET f[x \in Any, y \in Any] == IF RLt(y, x) THEN y ELSE x IN f[a, b]
RMax(a, b) == LET f[x \in Any, y \in Any] == IF RLt(x, y) THEN y ELSE x IN f[a, b]

SqrtSearch(n, lo, hi) ==
    LET search[l \in Int, h \in Int] ==
            IF l >= h THEN l
            ELSE LET mid == (l + h + 1) \div 2
                 IN  IF mid * mid <= n THEN search[mid, h] ELSE search[l, mid - 1]
    IN  search[lo, hi]

\* f64::sqrt of a non-negative value, rounded down to a multiple of 1/SqrtScale
RSqrt(a) ==
    LET sqrt[n \in Int] == Rat(SqrtSearch(n, 0, IF n < 46340 THEN n ELSE 46340), SqrtScale)
    IN  sqrt[(a[1] * SqrtScale * SqrtScale) \div a[2]]

----------------------------------------------------------------------------
(* Data types *)

SensorIds == {"force_sensor_1", "position_sensor_1"}
SensorTypes == {"Force", "Position", "Velocity", "Temperature"}
RawValues == {Zero, One}
Confidences == {One}

SensorData ==
    [sensor_id : SensorIds, reading_type : SensorTypes, value : RawValues,
     is_anomaly : BOOLEAN, confidence : Confidences]

NoData == [sensor_id |-> "none"]
NoStats == [count |-> 0]

\* rolling_stats::Stats::default()
StatsDefault == [count |-> 0, mean |-> Zero, mean2 |-> Zero, std_dev |-> Zero]

\* rolling_stats::Stats::update: Welford's online update
StatsUpdate(s, value) ==
    LET count == s.count + 1
        delta == RSub(value, s.mean)
        mean == RAdd(s.mean, RDiv(delta, <<count, 1>>))
        delta2 == RSub(value, mean)
        mean2 == RAdd(s.mean2, RMul(delta, delta2))
    IN  [count |-> count, mean |-> mean, mean2 |-> mean2,
         std_dev |-> IF count > 1 THEN RSqrt(RDiv(mean2, <<count - 1, 1>>))
                                  ELSE s.std_dev]

\* SensorData::detect_anomaly
DetectAnomaly_KeepFlag(self, mean, std_dev, threshold) ==
    IF RLt(Zero, std_dev)
    THEN LET z_score == RDiv(RAbs(RSub(self.value, mean)), std_dev)
             c == RSub(One, RMin(RDiv(z_score, RMul(threshold, <<2, 1>>)), Rat(9, 10)))
         IN  [self EXCEPT !.is_anomaly = RLt(threshold, z_score),
                          !.confidence = RMax(c, Rat(1, 10))]
    ELSE [self EXCEPT !.confidence = Zero]

DetectAnomaly_Unclamped(self, mean, std_dev, threshold) ==
    IF RLt(Zero, std_dev)
    THEN LET z_score == RDiv(RAbs(RSub(self.value, mean)), std_dev)
             c == RSub(<<2, 1>>, RMin(RDiv(z_score, RMul(threshold, <<2, 1>>)), Rat(9, 10)))
         IN  [self EXCEPT !.is_anomaly = RLt(threshold, z_score),
                          !.confidence = RMax(c, Rat(1, 10))]
    ELSE [self EXCEPT !.is_anomaly = FALSE, !.confidence = Zero]

DetectAnomaly(self, mean, std_dev, threshold) ==
    IF RLt(Zero, std_dev)
    THEN LET z_score == RDiv(RAbs(RSub(self.value, mean)), std_dev)
             c == RSub(One, RMin(RDiv(z_score, RMul(threshold, <<2, 1>>)), Rat(9, 10)))
         IN  [self EXCEPT !.is_anomaly = RLt(threshold, z_score),
                          !.confidence = RMax(c, Rat(1, 10))]
    ELSE [self EXCEPT !.is_anomaly = FALSE, !.confidence = Zero]

----------------------------------------------------------------------------
(* DataProcessor *)

\* DataProcessor::new: the default thresholds
DefaultThresholds ==
    [k \in SensorTypes |->
        CASE k = "Force" -> Rat(5, 2)
          [] k = "Position" -> <<3, 1>>
          [] k = "Velocity" -> Rat(14, 5)
          [] k = "Temperature" -> Rat(7, 2)]

EntryOrDefault_UnitDev(m, id) ==
    IF m[id] = NoStats THEN [StatsDefault EXCEPT !.std_dev = One] ELSE m[id]

EntryOrDefault_Shared(m, id) ==
    IF \E o \in DOMAIN m : m[o] # NoStats
    THEN m[CHOOSE o \in DOMAIN m : m[o] # NoStats]
    ELSE StatsDefault

\* moving_averages.entry(sensor_id).or_default()
EntryOrDefault(m, id) == IF m[id] = NoStats THEN StatsDefault ELSE m[id]

\* the statistics DataProcessor::process holds for the reading after update
UpdatedStats(m, raw) == StatsUpdate(EntryOrDefault(m, raw.sensor_id), raw.value)

NoThreshold == <<0, 0>>

ThresholdOf_Default(thresholds, kind) == DefaultThresholds[kind]

\* anomaly_thresholds.get(&reading_type).cloned().unwrap_or(3.0): every kind has
\* an entry from DataProcessor::new on
ThresholdOf(thresholds, kind) == thresholds[kind]

\* DataProcessor::process: the returned reading
ProcessData_RawValue(m, thresholds, raw) ==
    LET moving_avg == UpdatedStats(m, raw)
    IN  DetectAnomaly(raw, moving_avg.mean, moving_avg.std_dev,
                      ThresholdOf(thresholds, raw.reading_type))

ProcessData_DetectBeforeFilter(m, thresholds, raw) ==
    LET moving_avg == UpdatedStats(m, raw)
        detected == DetectAnomaly(raw, moving_avg.mean, moving_avg.std_dev,
                                  ThresholdOf(thresholds, raw.reading_type))
    IN  [detected EXCEPT !.value = moving_avg.mean]

ProcessData(m, thresholds, raw) ==
    LET moving_avg == UpdatedStats(m, raw)
        filtered_value == moving_avg.mean
    IN  DetectAnomaly([raw EXCEPT !.value = filtered_value],
                      filtered_value, moving_avg.std_dev,
                      ThresholdOf(thresholds, raw.reading_type))

\* DataProcessor::adjust_threshold: anomaly_thresholds.insert(sensor_type, new_threshold)
AdjustedThreshold(thresholds, sensor_type, new_threshold) ==
    [thresholds EXCEPT ![sensor_type] = new_threshold]

\* DataProcessor::generate_actuator_command: Some(command) or None
NoCommand == [actuator_id |-> "none"]

GenerateDeadlineMs == 2000

\* the ActuatorCommand of generate_actuator_command; source is the reading it
\* was created from (history, not a field of the command)
GeneratedCommand(sensor_data, t) ==
    [actuator_id |-> sensor_data.sensor_id,
     command_type |-> "adjust_position",
     value |-> sensor_data.value,
     priority |-> 1,
     deadline |-> t + GenerateDeadlineMs,
     source |-> sensor_data]

GenerateActuatorCommand_Always(sensor_data, t) == GeneratedCommand(sensor_data, t)

GenerateActuatorCommand(sensor_data, t) ==
    IF sensor_data.is_anomaly THEN GeneratedCommand(sensor_data, t) ELSE NoCommand

FromSensorDataDeadlineMs == 1000

\* ActuatorCommand::from_sensor_data
FromSensorData(data, t) ==
    [actuator_id |-> data.sensor_id,
     command_type |-> CASE data.reading_type = "Force" -> "AdjustForce"
                        [] data.reading_type = "Position" -> "MovePosition"
                        [] data.reading_type = "Velocity" -> "SetVelocity"
                        [] data.reading_type = "Temperature" -> "RegulateTemperature",
     value |-> data.value,
     priority |-> IF data.is_anomaly THEN 10 ELSE 5,
     deadline |-> t + FromSensorDataDeadlineMs,
     source |-> data]

InitProc ==
    /\ moving_averages = [id \in SensorIds |-> NoStats]
    /\ anomaly_thresholds = DefaultThresholds
    /\ raw_data = NoData
    /\ processed_data = NoData
    /\ proc_threshold = NoThreshold
    /\ seen = [id \in SensorIds |-> [n |-> 0, sum |-> Zero]]
    /\ tx = 0

\* one iteration of run_processor's loop, on the reading raw taken from rx
RunProcessor(raw) ==
    /\ tx < MaxReadings
    /\ LET out == ProcessData(moving_averages, anomaly_thresholds, raw)
           cmd == GenerateActuatorCommand(out, now)
       IN  /\ processed_data' = out
           /\ actuator_tx' = IF cmd = NoCommand THEN actuator_tx
                             ELSE Append(actuator_tx, cmd)
    /\ moving_averages' = [moving_averages EXCEPT ![raw.sensor_id] = UpdatedStats(moving_averages, raw)]
    /\ raw_data' = raw
    /\ proc_threshold' = ThresholdOf(anomaly_thresholds, raw.reading_type)
    /\ seen' = [seen EXCEPT ![raw.sensor_id] =
                   [n |-> @.n + 1, sum |-> RAdd(@.sum, raw.value)]]
    /\ tx' = tx + 1
    /\ UNCHANGED <<extVars, anomaly_thresholds, pidVars, cmdVars>>

\* one call of adjust_threshold
AdjustThreshold(sensor_type, new_threshold) ==
    /\ anomaly_thresholds' = AdjustedThreshold(anomaly_thresholds, sensor_type, new_threshold)
    /\ UNCHANGED <<extVars, moving_averages, raw_data, processed_data, proc_threshold, seen, tx,
                   actuator_tx, pidVars, cmdVars>>

----------------------------------------------------------------------------
(* PIDController *)

Gains == {Zero, One, Rat(1, 10)}
Setpoints == {<<10, 1>>}
Measurements == {<<7, 1>>, <<8, 1>>, <<12, 1>>}
Dts == {One, Rat(1, 2)}

\* PIDController::new
PIDNew(kp, ki, kd) ==
    [kp |-> kp, ki |-> ki, kd |-> kd, prev_error |-> Zero, integral |-> Zero]

\* PIDController::compute: the controller after the call and the value returned
PIDCompute_NoIntegral(c, setpoint, measurement, dt) ==
    LET error == RSub(setpoint, measurement)
        derivative == RDiv(RSub(error, c.prev_error), dt)
        output == RAdd(RAdd(RMul(c.kp, error), RMul(c.ki, c.integral)),
                       RMul(c.kd, derivative))
    IN  [controller |-> [c EXCEPT !.prev_error = error], value |-> output]

PIDCompute_ClampIntegral(c, setpoint, measurement, dt) ==
    LET error == RSub(setpoint, measurement)
        integral == RMax(RMin(RAdd(c.integral, RMul(error, dt)), <<3, 1>>), <<0 - 3, 1>>)
        derivative == RDiv(RSub(error, c.prev_error), dt)
        output == RAdd(RAdd(RMul(c.kp, error), RMul(c.ki, integral)),
                       RMul(c.kd, derivative))
    IN  [controller |-> [c EXCEPT !.integral = integral, !.prev_error = error],
         value |-> output]

PIDCompute_NoPrevError(c, setpoint, measurement, dt) ==
    LET error == RSub(setpoint, measurement)
        integral == RAdd(c.integral, RMul(error, dt))
        derivative == RDiv(error, dt)
        output == RAdd(RAdd(RMul(c.kp, error), RMul(c.ki, integral)),
                       RMul(c.kd, derivative))
    IN  [controller |-> [c EXCEPT !.integral = integral, !.prev_error = error],
         value |-> output]

PIDCompute(c, setpoint, measurement, dt) ==
    LET error == RSub(setpoint, measurement)
        integral == RAdd(c.integral, RMul(error, dt))
        derivative == RDiv(RSub(error, c.prev_error), dt)
        output == RAdd(RAdd(RMul(c.kp, error), RMul(c.ki, integral)),
                       RMul(c.kd, derivative))
    IN  [controller |-> [c EXCEPT !.integral = integral, !.prev_error = error],
         value |-> output]

NoOutput == <<0, 0>>

\* the controller of the actuator system: PIDController::new(1.0, 0.1, 0.05)
InitPIDIdle ==
    /\ pid = PIDNew(One, Rat(1, 10), Rat(1, 20))
    /\ pid_out = NoOutput
    /\ pid_hist = <<>>

InitPID ==
    /\ \E kp \in Gains, ki \in Gains, kd \in Gains : pid = PIDNew(kp, ki, kd)
    /\ pid_out = NoOutput
    /\ pid_hist = <<>>

\* one call of compute
Compute(setpoint, measurement, dt) ==
    /\ Len(pid_hist) < MaxCalls
    /\ LET r == PIDCompute(pid, setpoint, measurement, dt)
       IN  /\ pid' = r.controller
           /\ pid_out' = r.value
    /\ pid_hist' = Append(pid_hist,
                     [setpoint |-> setpoint, measurement |-> measurement, dt |-> dt])
    /\ UNCHANGED <<extVars, procVars, actuator_tx, cmdVars>>

----------------------------------------------------------------------------
(* The command path: sensor binary, run_transmitter, broker, run_actuator_system *)

TickSteps == {1200}

\* the readings of run_sensor_array: each sensor reports its own kind
GeneratedReadings ==
    {r \in SensorData :
        /\ r.value = One
        /\ r.reading_type = (IF r.sensor_id = "force_sensor_1" THEN "Force" ELSE "Position")}

ActuatorPrograms == {"run_actuator_system", "actuator"}

ConnectionTypes == {"SharedMemory", "TcpSocket", "CrossbeamChannel"}

\* DataTransmitter::new
DTNew(connection_type) ==
    [connection_type |-> connection_type, endpoint |-> FALSE, shared_mem_name |-> FALSE,
     connected |-> FALSE, tcp_connection |-> FALSE]

NoCall == [op |-> "none", ok |-> TRUE, transport |-> "none"]

\* the transmitter run_transmitter builds for the "channel" connection type
InitDT ==
    /\ transmitter = DTNew("CrossbeamChannel")
    /\ dt_result = NoCall
    /\ dt_calls = 0

\* the command path at rest, its queue served by the given consumer
InitPath(program) ==
    /\ actuator_program = program
    /\ act_pc = "next"
    /\ consumed = <<>>
    /\ now = 0
    /\ bin_sent = <<>>
    /\ command_rx = <<>>
    /\ command_queue = <<>>
    /\ feedback_queue = <<>>
    /\ forwarded = <<>>
    /\ acked = 0
    /\ amqp_pc = "run"
    /\ send_failures = 0

InitCmdOf(program) == InitDT /\ InitPath(program)

InitCmd == InitCmdOf("run_actuator_system")

\* time passes
Tick(d) ==
    /\ now + d <= MaxTime
    /\ now' = now + d
    /\ UNCHANGED <<extVars, procVars, actuator_tx, pidVars, bin_sent, command_rx, command_queue,
                   feedback_queue, forwarded, acked, amqp_pc, send_failures, actVars, dtVars>>

\* run_processor's command step on a processed reading: generate_actuator_command,
\* then actuator_tx.send for Some(command)
GenerateCommand(sensor_data) ==
    /\ Len(actuator_tx) < MaxCommands
    /\ LET cmd == GenerateActuatorCommand(sensor_data, now)
       IN  /\ cmd # NoCommand
           /\ actuator_tx' = Append(actuator_tx, cmd)
    /\ UNCHANGED <<extVars, procVars, pidVars, cmdVars>>

\* the sensor binary's conversion task: one reading received from sensor_rx
SensorBinConvert(data) ==
    /\ Len(bin_sent) < MaxCommands
    /\ LET cmd == FromSensorData(data, now)
       IN  /\ command_rx' = Append(command_rx, cmd)
           /\ bin_sent' = Append(bin_sent, cmd)
    /\ UNCHANGED <<extVars, procVars, actuator_tx, pidVars, now, command_queue, feedback_queue,
                   forwarded, acked, amqp_pc, send_failures, actVars, dtVars>>

\* run_transmitter: one command received and published to the command queue
TransmitterPublish ==
    /\ amqp_pc = "run"
    /\ command_rx # <<>>
    /\ command_queue' = Append(command_queue, Head(command_rx))
    /\ command_rx' = Tail(command_rx)
    /\ UNCHANGED <<extVars, procVars, actuator_tx, pidVars, now, bin_sent, feedback_queue,
                   forwarded, acked, amqp_pc, send_failures, actVars, dtVars>>

\* run_transmitter: one command received, and basic_publish or its confirmation fails
TransmitterPublishFails ==
    /\ amqp_pc = "run"
    /\ command_rx # <<>>
    /\ command_rx' = Tail(command_rx)
    /\ send_failures' = send_failures + 1
    \* `.await?`: the error is returned and the loop is left
    /\ amqp_pc' = "returned"
    /\ UNCHANGED <<extVars, procVars, actuator_tx, pidVars, now, bin_sent, command_queue,
                   feedback_queue, forwarded, acked, actVars, dtVars>>

\* the consumer loop of run_actuator_system and of the actuator binary: one delivery
\* taken from the command queue and parsed; run_actuator_system forwards the command on
\* command_tx (`.ok()`: a send error is dropped), the actuator binary only prints it
ActuatorConsume ==
    /\ act_pc = "next"
    /\ command_queue # <<>>
    /\ LET command == Head(command_queue)
       IN  /\ consumed' = Append(consumed, command)
           /\ forwarded' = IF actuator_program = "run_actuator_system"
                              THEN Append(forwarded, [command |-> command, taken_at |-> now])
                              ELSE forwarded
    /\ command_queue' = Tail(command_queue)
    /\ act_pc' = "publish"
    /\ UNCHANGED <<extVars, procVars, actuator_tx, pidVars, now, bin_sent, command_rx,
                   feedback_queue, acked, amqp_pc, send_failures, actuator_program, dtVars>>

\* ActuatorFeedback built by the consumer loop for a command
FeedbackFor(command, t) ==
    [timestamp |-> t, actuator_id |-> command.actuator_id, status |-> "Normal"]

AfterPublish_AckAnyway(ok) == "ack"

\* `basic_publish(..).await?.await?`: on success the loop goes on to the ack, on an
\* error of the publish or of its confirmation the function returns the error
AfterPublish(ok) == IF ok THEN "ack" ELSE "returned"

\* the feedback of the delivery in hand is published to the feedback queue, or the
\* publish fails
ActuatorPublish(ok) ==
    /\ act_pc = "publish"
    /\ feedback_queue' = IF ok
                            THEN Append(feedback_queue,
                                        FeedbackFor(consumed[Len(consumed)], now))
                            ELSE feedback_queue
    /\ act_pc' = AfterPublish(ok)
    /\ UNCHANGED <<extVars, procVars, actuator_tx, pidVars, now, bin_sent, command_rx,
                   command_queue, forwarded, acked, amqp_pc, send_failures,
                   actuator_program, consumed, dtVars>>

\* `delivery.ack(..).await?`: the delivery is acknowledged, or the ack fails and the
\* function returns the error
ActuatorAck(ok) ==
    /\ act_pc = "ack"
    /\ acked' = IF ok THEN acked + 1 ELSE acked
    /\ act_pc' = IF ok THEN "next" ELSE "returned"
    /\ UNCHANGED <<extVars, procVars, actuator_tx, pidVars, now, bin_sent, command_rx,
                   command_queue, feedback_queue, forwarded, amqp_pc, send_failures,
                   actuator_program, consumed, dtVars>>

----------------------------------------------------------------------------
(* DataTransmitter (src/src/sensor/transmitter.rs) *)

DTConnect_Unconfigured(t, io_ok) ==
    CASE t.connection_type = "TcpSocket" ->
           IF io_ok
           THEN [transmitter |-> [t EXCEPT !.tcp_connection = TRUE, !.connected = TRUE],
                 ok |-> TRUE, transport |-> "tcp"]
           ELSE [transmitter |-> t, ok |-> FALSE, transport |-> "tcp"]
      [] t.connection_type = "SharedMemory" ->
           [transmitter |-> [t EXCEPT !.connected = TRUE], ok |-> TRUE,
            transport |-> "none"]
      [] t.connection_type = "CrossbeamChannel" ->
           [transmitter |-> [t EXCEPT !.connected = TRUE], ok |-> TRUE,
            transport |-> "none"]

\* DataTransmitter::connect: the transmitter after the call, whether Ok was returned
\* and the transport used (io_ok: TcpStream::connect succeeds)
DTConnect(t, io_ok) ==
    CASE t.connection_type = "TcpSocket" ->
           IF t.endpoint
           THEN IF io_ok
                THEN [transmitter |-> [t EXCEPT !.tcp_connection = TRUE,
                                                !.connected = TRUE],
                      ok |-> TRUE, transport |-> "tcp"]
                ELSE [transmitter |-> t, ok |-> FALSE, transport |-> "tcp"]
           ELSE [transmitter |-> t, ok |-> FALSE, transport |-> "none"]
      [] t.connection_type = "SharedMemory" ->
           IF t.shared_mem_name
           THEN [transmitter |-> [t EXCEPT !.connected = TRUE], ok |-> TRUE,
                 transport |-> "none"]
           ELSE [transmitter |-> t, ok |-> FALSE, transport |-> "none"]
      [] t.connection_type = "CrossbeamChannel" ->
           [transmitter |-> [t EXCEPT !.connected = TRUE], ok |-> TRUE,
            transport |-> "none"]

\* the transport a connected transmitter uses in send_data and receive_feedback
TransportOf(t) ==
    CASE t.connection_type = "TcpSocket" -> IF t.tcp_connection THEN "tcp" ELSE "none"
      [] t.connection_type = "SharedMemory" -> "shared_memory"
      [] t.connection_type = "CrossbeamChannel" -> "none"

DTSendData_Unguarded(t, io_ok) ==
    [ok |-> (TransportOf(t) = "tcp" => io_ok), transport |-> TransportOf(t)]

\* DataTransmitter::send_data: whether Ok was returned and the transport used
\* (io_ok: the writes on the TCP stream succeed)
DTSendData(t, io_ok) ==
    IF ~t.connected
    THEN [ok |-> FALSE, transport |-> "none"]
    ELSE [ok |-> (TransportOf(t) = "tcp" => io_ok), transport |-> TransportOf(t)]

\* DataTransmitter::receive_feedback: whether Ok was returned and the transport used
\* (io_ok: a feedback is read from the TCP stream and parsed)
DTReceiveFeedback(t, io_ok) ==
    IF ~t.connected
    THEN [ok |-> FALSE, transport |-> "none"]
    ELSE CASE TransportOf(t) = "tcp" -> [ok |-> io_ok, transport |-> "tcp"]
           [] TransportOf(t) = "shared_memory" -> [ok |-> TRUE, transport |-> "shared_memory"]
           [] OTHER -> [ok |-> FALSE, transport |-> "none"]

dtFrame == <<extVars, procVars, actuator_tx, pidVars, now, bin_sent, command_rx,
             command_queue, feedback_queue, forwarded, acked, amqp_pc, send_failures,
             actVars>>

\* with_tcp_endpoint
WithTcpEndpoint ==
    /\ ~transmitter.endpoint
    /\ transmitter' = [transmitter EXCEPT !.endpoint = TRUE]
    /\ UNCHANGED <<dtFrame, dt_result, dt_calls>>

\* with_shared_memory
WithSharedMemory ==
    /\ ~transmitter.shared_mem_name
    /\ transmitter' = [transmitter EXCEPT !.shared_mem_name = TRUE]
    /\ UNCHANGED <<dtFrame, dt_result, dt_calls>>

\* one call of connect
Connect(io_ok) ==
    /\ dt_calls < MaxCalls
    /\ LET r == DTConnect(transmitter, io_ok)
       IN  /\ transmitter' = r.transmitter
           /\ dt_result' = [op |-> "connect", ok |-> r.ok, transport |-> r.transport]
    /\ dt_calls' = dt_calls + 1
    /\ UNCHANGED dtFrame

\* one call of send_data
SendData(io_ok) ==
    /\ dt_calls < MaxCalls
    /\ LET r == DTSendData(transmitter, io_ok)
       IN  dt_result' = [op |-> "send_data", ok |-> r.ok, transport |-> r.transport]
    /\ dt_calls' = dt_calls + 1
    /\ UNCHANGED <<dtFrame, transmitter>>

\* one call of receive_feedback
ReceiveFeedback(io_ok) ==
    /\ dt_calls < MaxCalls
    /\ LET r == DTReceiveFeedback(transmitter, io_ok)
       IN  dt_result' = [op |-> "receive_feedback", ok |-> r.ok, transport |-> r.transport]
    /\ dt_calls' = dt_calls + 1
    /\ UNCHANGED <<dtFrame, transmitter>>

----------------------------------------------------------------------------
(* Scheduler *)

SchedStepMs == 5
Intervals == {5, 10}
TaskDurations == 0..MaxTaskMs
Oversleeps == {0, 1, 2}

\* next_instant += Duration::from_millis(5)
AdvanceNextInstant(next, interval) == next + SchedStepMs

\* if next_instant > now
MustSleep_Late(next, t) == next > t + 2

MustSleep(next, t) == next > t

\* else branch: next_instant = now
Resynchronize(next, t) == t

\* the loop has no exit: after the sleep or the miss it goes back to its top
AfterCheck_BreakOnMiss(sleeping) == IF sleeping THEN "top" ELSE "stopped"

AfterCheck(sleeping) == "top"

InitSchedIdle ==
    /\ sched_interval = SchedStepMs
    /\ sched_pc = "new"
    /\ next_instant = 0
    /\ last_advance = 0
    /\ last_duration = 0
    /\ lag = 0
    /\ since_end = 0
    /\ slept = FALSE
    /\ ever_slept = FALSE
    /\ invoked = FALSE

\* Scheduler::new(interval_ms)
InitSched ==
    /\ sched_interval \in Intervals
    /\ sched_pc = "new"
    /\ next_instant = 0
    /\ last_advance = 0
    /\ last_duration = 0
    /\ lag = 0
    /\ since_end = 0
    /\ slept = FALSE
    /\ ever_slept = FALSE
    /\ invoked = FALSE

\* Scheduler::start: the thread is spawned and reads Instant::now()
SchedStart ==
    /\ sched_pc = "new"
    /\ sched_pc' = "top"
    /\ next_instant' = 0
    /\ UNCHANGED <<exceptSched, sched_interval, last_advance,
                   last_duration, lag, since_end, slept, ever_slept, invoked>>

\* top of the loop: next_instant is advanced and the task runs for d ms
SchedInvoke(d) ==
    /\ sched_pc = "top"
    /\ LET advanced == AdvanceNextInstant(next_instant, sched_interval)
       IN  /\ next_instant' = advanced - d
           /\ last_advance' = advanced - next_instant
    /\ last_duration' = d
    /\ lag' = 0 - next_instant
    /\ since_end' = 0
    /\ invoked' = TRUE
    /\ sched_pc' = "after"
    /\ UNCHANGED <<exceptSched, sched_interval, slept,
                   ever_slept>>

\* ahead of schedule: thread::sleep(next_instant - now), which may wake o ms late
SchedSleep(o) ==
    /\ sched_pc = "after"
    /\ MustSleep(next_instant, 0)
    /\ next_instant' = 0 - o
    /\ since_end' = since_end + next_instant + o
    /\ slept' = TRUE
    /\ ever_slept' = TRUE
    /\ sched_pc' = AfterCheck(TRUE)
    /\ UNCHANGED <<exceptSched, sched_interval, last_advance,
                   last_duration, lag, invoked>>

\* behind schedule: no sleep, next_instant = now
SchedMiss ==
    /\ sched_pc = "after"
    /\ ~MustSleep(next_instant, 0)
    /\ next_instant' = Resynchronize(next_instant, 0)
    /\ slept' = FALSE
    /\ sched_pc' = AfterCheck(FALSE)
    /\ UNCHANGED <<exceptSched, sched_interval, last_advance,
                   last_duration, lag, since_end, ever_slept, invoked>>

----------------------------------------------------------------------------
(* MetricsCollector and run_metrics_collector *)

Operations == {"data_processing", "data_transmission", "sensor_receive"}
NoDuration == <<0, 0>>
DurationsMs == {<<1, 1>>, <<2, 1>>, <<3, 1>>}
ReportIntervals == {200}
TickElapsed == {0, 100}

ProcessingBudgetMs == 2
TransmissionBudgetMs == 1
Percent == 100

\* PerformanceMetrics after complete(success)
Samples == [operation : Operations, duration_ms : DurationsMs, success : BOOLEAN]

AddMetrics_Replace(m, s) ==
    [o \in DOMAIN m \cup {s.operation} |-> IF o = s.operation THEN <<s>> ELSE m[o]]

\* MetricsCollector::add_metrics: entry(operation).or_default().push(metrics)
AddMetrics(m, s) ==
    [o \in DOMAIN m \cup {s.operation} |->
        LET entry == IF o \in DOMAIN m THEN m[o] ELSE <<>>
        IN  IF o = s.operation THEN Append(entry, s) ELSE entry]

MissedDeadline_AtBudget(m) ==
    /\ m.duration_ms # NoDuration
    /\ \/ m.operation = "data_processing" /\ RLe(<<ProcessingBudgetMs, 1>>, m.duration_ms)
       \/ m.operation = "data_transmission"
            /\ RLe(<<TransmissionBudgetMs, 1>>, m.duration_ms)

\* the match of generate_report on the operation of a sample
MissedDeadline(m) ==
    /\ m.duration_ms # NoDuration
    /\ \/ m.operation = "data_processing" /\ RLt(<<ProcessingBudgetMs, 1>>, m.duration_ms)
       \/ m.operation = "data_transmission"
            /\ RLt(<<TransmissionBudgetMs, 1>>, m.duration_ms)

\* the OperationStats generate_report computes for a non-empty list of samples
OperationStats(operation, ms) ==
    LET total == Len(ms)
        success_count == Cardinality({i \in DOMAIN ms : ms[i].success})
        \* filter_map(|m| m.duration_ms)
        durations == SelectSeq(ms, LAMBDA m : m.duration_ms # NoDuration)
        n == Len(durations)
        RECURSIVE Sum(_)
        Sum(i) == IF i = 0 THEN Zero ELSE RAdd(durations[i].duration_ms, Sum(i - 1))
        avg_duration == IF n > 0 THEN RDiv(Sum(n), <<n, 1>>) ELSE Zero
        RECURSIVE SquaredDeviations(_)
        SquaredDeviations(i) ==
            IF i = 0 THEN Zero
            ELSE LET dev == RSub(durations[i].duration_ms, avg_duration)
                 IN  RAdd(RMul(dev, dev), SquaredDeviations(i - 1))
        least == CHOOSE i \in 1..n :
                    \A j \in 1..n : RLe(durations[i].duration_ms, durations[j].duration_ms)
        most == CHOOSE i \in 1..n :
                    \A j \in 1..n : RLe(durations[j].duration_ms, durations[i].duration_ms)
    IN  [operation |-> operation,
         total_operations |-> total,
         success_rate |-> RMul(RDiv(<<success_count, 1>>, <<total, 1>>), <<Percent, 1>>),
         avg_duration |-> avg_duration,
         min_duration |-> IF n > 0 THEN durations[least].duration_ms ELSE Zero,
         max_duration |-> IF n > 0 THEN durations[most].duration_ms ELSE Zero,
         jitter |-> IF n > 1 THEN RSqrt(RDiv(SquaredDeviations(n), <<n, 1>>)) ELSE Zero,
         missed_deadlines |-> Cardinality({i \in DOMAIN ms : MissedDeadline(ms[i])})]

\* MetricsCollector::generate_report: operations with no sample are skipped
GenerateReport(m) ==
    [o \in {op \in DOMAIN m : m[op] # <<>>} |-> OperationStats(o, m[o])]

ClearMetrics_Keep(m) == m

\* MetricsCollector::clear_metrics: every list is emptied, the keys stay
ClearMetrics(m) == [o \in DOMAIN m |-> <<>>]

\* the samples held by the collector
Held(m) == UNION {{m[o][i] : i \in 1..Len(m[o])} : o \in DOMAIN m}

\* MetricsCollector::new(config) at the start of run_metrics_collector
InitMet ==
    /\ metrics = <<>>
    /\ metrics_rx = <<>>
    /\ metrics_open = TRUE
    /\ met_sent = 0
    /\ met_pc = "tick"
    /\ report_interval \in ReportIntervals
    /\ since_report = 0
    /\ window = {}
    /\ reports = <<>>
    /\ added = {}

\* a stage sends a sample on the metrics channel
SendMetrics(s) ==
    /\ metrics_open
    /\ met_sent < MaxSamples
    /\ met_sent' = met_sent + 1
    /\ metrics_rx' = Append(metrics_rx, [id |-> met_sent + 1] @@ s)
    /\ UNCHANGED <<exceptMet, metrics, metrics_open, met_pc, report_interval, since_report,
                   window, reports, added>>

\* the last sender of the metrics channel is dropped
CloseMetrics ==
    /\ metrics_open
    /\ metrics_open' = FALSE
    /\ UNCHANGED <<exceptMet, metrics, metrics_rx, met_sent, met_pc, report_interval,
                   since_report, window, reports, added>>

\* interval.tick().await
CollectorTick(d) ==
    /\ met_pc = "tick"
    /\ Len(reports) < MaxReports
    /\ met_pc' = "drain"
    /\ since_report' =
          IF since_report + d < report_interval THEN since_report + d ELSE report_interval
    /\ UNCHANGED <<exceptMet, metrics, metrics_rx, metrics_open, met_sent, report_interval,
                   window, reports, added>>

\* try_recv returns Ok(metrics)
CollectorRecv ==
    /\ met_pc = "drain"
    /\ metrics_rx # <<>>
    /\ metrics' = AddMetrics(metrics, Head(metrics_rx))
    /\ window' = window \cup {Head(metrics_rx)}
    /\ added' = added \cup {Head(metrics_rx)}
    /\ metrics_rx' = Tail(metrics_rx)
    /\ UNCHANGED <<exceptMet, metrics_open, met_sent, met_pc, report_interval, since_report,
                   reports>>

\* try_recv returns Empty; the report is made if it is time
CollectorEmpty ==
    /\ met_pc = "drain"
    /\ metrics_rx = <<>>
    /\ metrics_open
    /\ met_pc' = "tick"
    /\ IF since_report >= report_interval
       THEN /\ reports' = Append(reports, [stats |-> GenerateReport(metrics),
                                           samples |-> Held(metrics),
                                           window |-> window])
            /\ since_report' = 0
            /\ metrics' = ClearMetrics(metrics)
            /\ window' = {}
       ELSE UNCHANGED <<reports, since_report, metrics, window>>
    /\ UNCHANGED <<exceptMet, metrics_rx, metrics_open, met_sent, report_interval, added>>

\* try_recv returns Disconnected: the collector returns
CollectorDisconnected ==
    /\ met_pc = "drain"
    /\ metrics_rx = <<>>
    /\ ~metrics_open
    /\ met_pc' = "stopped"
    /\ UNCHANGED <<exceptMet, metrics, metrics_rx, metrics_open, met_sent, report_interval,
                   since_report, window, reports, added>>

----------------------------------------------------------------------------
(* The pipeline: sensor array, run_processor, run_transmitter, ReceiverTask *)

\* crossbeam_channel::Sender::send on an open channel
ChannelSend_Front(ch, v) == <<v>> \o ch

ChannelSend(ch, v) == Append(ch, v)

\* where a stage goes when recv() returns Err: it leaves its loop
AfterDisconnect_Retry(stage) == IF stage = "transmitter" THEN "run" ELSE "done"

AfterDisconnect(stage) == "done"

\* the lock of the slot after the block that writes it: the guard is dropped
SlotGuardDropped_Held(holder) == holder

SlotGuardDropped(holder) == "free"

AfterMetricsSend_Break(ok) == IF ok THEN "run" ELSE "done"

\* `let _ = metrics_tx.send(metrics)`: the result is dropped and the loop goes on
AfterMetricsSend(ok) == "run"

\* a completed PerformanceMetrics of a stage, numbered as SendMetrics does
StageSample(operation) ==
    [id |-> met_sent + 1, operation |-> operation, duration_ms |-> One, success |-> TRUE]

InitPipe ==
    /\ sensor_rx = <<>>
    /\ sensor_open = TRUE
    /\ generated = 0
    /\ proc_pc = "run"
    /\ data_ch = <<>>
    /\ trans_pc = "setup"
    /\ act_ch = <<>>
    /\ recv_pc = "recv"
    /\ recv_sensor_data = NoData
    /\ shared_sensor_data = NoData
    /\ slot_lock = "free"
    /\ metrics_lock = "free"
    /\ proc_in = <<>>
    /\ proc_out = <<>>
    /\ handled = <<>>
    /\ rep_pc = "idle"

\* the sensor array sends the reading r, stamped with the time of its generation
SourceSend(r) ==
    /\ sensor_open
    /\ generated < MaxPipe
    /\ generated' = generated + 1
    /\ sensor_rx' = ChannelSend(sensor_rx, [timestamp |-> generated + 1] @@ r)
    /\ UNCHANGED <<procVars, actuator_tx, pidVars, cmdVars, schedVars, rep_pc, mainVars, metVars, sensor_open,
                   proc_pc, data_ch, trans_pc, act_ch, recv_pc, recv_sensor_data,
                   shared_sensor_data, slot_lock, metrics_lock, proc_in, proc_out, handled>>

\* one iteration of SensorGenerator::run: the reading r is generated, its metrics
\* sample sent, then the reading; the generator leaves its loop, dropping its
\* sender, once the receiver of the readings is gone
GeneratorLoop(r) ==
    /\ sensor_open
    /\ generated < MaxPipe
    /\ IF met_pc # "stopped"
       THEN /\ metrics_rx' = ChannelSend(metrics_rx, StageSample("sensor_reading_generation"))
            /\ met_sent' = met_sent + 1
       ELSE UNCHANGED <<metrics_rx, met_sent>>
    /\ IF AfterMetricsSend(met_pc # "stopped") = "run" /\ proc_pc # "done"
       THEN /\ generated' = generated + 1
            /\ sensor_rx' = ChannelSend(sensor_rx, [timestamp |-> generated + 1] @@ r)
            /\ UNCHANGED sensor_open
       ELSE /\ sensor_open' = FALSE
            /\ UNCHANGED <<generated, sensor_rx>>
    /\ UNCHANGED <<procVars, actuator_tx, pidVars, cmdVars, schedVars, rep_pc, mainVars, metrics,
                   metrics_open, met_pc, report_interval, since_report, window, reports, added,
                   proc_pc, data_ch, trans_pc, act_ch, recv_pc, recv_sensor_data,
                   shared_sensor_data, slot_lock, metrics_lock, proc_in, proc_out, handled>>

\* the task that owns the receiver of the metrics channel is dropped while the
\* stages run: the receiver is gone, and with it the samples still queued
MetricsReceiverDropped ==
    /\ met_pc # "stopped"
    /\ met_pc' = "stopped"
    /\ metrics_rx' = <<>>
    /\ UNCHANGED <<exceptMet, metrics, metrics_open, met_sent, report_interval, since_report,
                   window, reports, added>>

\* the last sender of the sensor channel is dropped
SourceClose ==
    /\ sensor_open
    /\ sensor_open' = FALSE
    /\ UNCHANGED <<procVars, actuator_tx, pidVars, cmdVars, schedVars, rep_pc, mainVars, metVars, sensor_rx,
                   generated, proc_pc, data_ch, trans_pc, act_ch, recv_pc, recv_sensor_data,
                   shared_sensor_data, slot_lock, metrics_lock, proc_in, proc_out, handled>>

\* one iteration of run_processor's loop: rx.recv() and its two arms
ProcessorLoop ==
    /\ proc_pc = "run"
    /\ IF sensor_rx # <<>>
       THEN LET raw == Head(sensor_rx)
                out == ProcessData(moving_averages, anomaly_thresholds, raw)
                cmd == GenerateActuatorCommand(out, now)
            IN  /\ sensor_rx' = Tail(sensor_rx)
                /\ proc_in' = Append(proc_in, raw)
                /\ moving_averages' = [moving_averages EXCEPT ![raw.sensor_id] =
                                          UpdatedStats(moving_averages, raw)]
                /\ raw_data' = raw
                /\ processed_data' = out
                /\ proc_threshold' = ThresholdOf(anomaly_thresholds, raw.reading_type)
                /\ seen' = [seen EXCEPT ![raw.sensor_id] =
                               [n |-> @.n + 1, sum |-> RAdd(@.sum, raw.value)]]
                /\ actuator_tx' = IF cmd = NoCommand THEN actuator_tx
                                  ELSE ChannelSend(actuator_tx, cmd)
                \* let _ = metrics_tx.send(metrics)
                /\ IF met_pc # "stopped"
                   THEN /\ metrics_rx' = ChannelSend(metrics_rx, StageSample("data_processing"))
                        /\ met_sent' = met_sent + 1
                   ELSE UNCHANGED <<metrics_rx, met_sent>>
                \* tx.send(processed_data) fails once the transmitter has returned
                /\ IF AfterMetricsSend(met_pc # "stopped") = "run" /\ trans_pc # "done"
                   THEN /\ data_ch' = ChannelSend(data_ch, out)
                        /\ proc_out' = Append(proc_out, out)
                        /\ tx' = tx + 1
                        /\ proc_pc' = "run"
                   ELSE /\ proc_pc' = "done"
                        /\ UNCHANGED <<data_ch, proc_out, tx>>
       ELSE /\ ~sensor_open
            /\ proc_pc' = AfterDisconnect("processor")
            /\ UNCHANGED <<procVars, actuator_tx, metrics_rx, met_sent, sensor_rx, data_ch,
                           proc_in, proc_out>>
    /\ UNCHANGED <<anomaly_thresholds, pidVars, cmdVars, schedVars, rep_pc, mainVars, metrics, metrics_open,
                   met_pc, report_interval, since_report, window, reports, added,
                   sensor_open,
                   generated, trans_pc, act_ch, recv_pc, recv_sensor_data, shared_sensor_data,
                   slot_lock, metrics_lock, handled>>

\* run_transmitter creates its transmitter, or returns when it cannot
TransmitterSetup(connected) ==
    /\ trans_pc = "setup"
    /\ trans_pc' = IF connected THEN "run" ELSE "done"
    /\ UNCHANGED <<procVars, actuator_tx, pidVars, cmdVars, schedVars, rep_pc, mainVars, metVars, sensor_rx,
                   sensor_open, generated, proc_pc, data_ch, act_ch, recv_pc, recv_sensor_data,
                   shared_sensor_data, slot_lock, metrics_lock, proc_in, proc_out, handled>>

\* one iteration of run_transmitter's loop with the channel connection type
TransmitterLoop ==
    /\ trans_pc = "run"
    /\ IF data_ch # <<>>
       THEN /\ data_ch' = Tail(data_ch)
            /\ IF recv_pc # "done"
               THEN /\ act_ch' = ChannelSend(act_ch, Head(data_ch))
                    /\ IF met_pc # "stopped"
                       THEN /\ metrics_rx' =
                                  ChannelSend(metrics_rx, StageSample("data_transmission"))
                            /\ met_sent' = met_sent + 1
                       ELSE UNCHANGED <<metrics_rx, met_sent>>
                    /\ trans_pc' = AfterMetricsSend(met_pc # "stopped")
               ELSE /\ trans_pc' = "done"
                    /\ UNCHANGED <<act_ch, metrics_rx, met_sent>>
       ELSE /\ proc_pc = "done"
            /\ trans_pc' = AfterDisconnect("transmitter")
            /\ UNCHANGED <<data_ch, act_ch, metrics_rx, met_sent>>
    /\ UNCHANGED <<procVars, actuator_tx, pidVars, cmdVars, schedVars, rep_pc, mainVars, metrics, metrics_open,
                   met_pc, report_interval, since_report, window, reports, added,
                   sensor_rx,
                   sensor_open, generated, proc_pc, recv_pc, recv_sensor_data,
                   shared_sensor_data, slot_lock, metrics_lock, proc_in, proc_out, handled>>

\* ReceiverTask::run: rx.recv() at the head of the while loop
ReceiverLoop ==
    /\ recv_pc = "recv"
    /\ IF act_ch # <<>>
       THEN /\ recv_sensor_data' = Head(act_ch)
            /\ act_ch' = Tail(act_ch)
            /\ handled' = Append(handled, Head(act_ch))
            /\ recv_pc' = "slot"
       ELSE /\ trans_pc = "done"
            /\ recv_pc' = AfterDisconnect("receiver")
            /\ UNCHANGED <<recv_sensor_data, act_ch, handled>>
    /\ UNCHANGED <<procVars, actuator_tx, pidVars, cmdVars, schedVars, rep_pc, mainVars, metVars, sensor_rx,
                   sensor_open, generated, proc_pc, data_ch, trans_pc, shared_sensor_data,
                   slot_lock, metrics_lock, proc_in, proc_out>>

\* shared_sensor_data.lock()
ReceiverLockSlot ==
    /\ recv_pc = "slot"
    /\ slot_lock = "free"
    /\ slot_lock' = "receiver"
    /\ recv_pc' = "write"
    /\ UNCHANGED <<procVars, actuator_tx, pidVars, cmdVars, schedVars, rep_pc, mainVars, metVars, sensor_rx,
                   sensor_open, generated, proc_pc, data_ch, trans_pc, act_ch, recv_sensor_data,
                   shared_sensor_data, metrics_lock, proc_in, proc_out, handled>>

\* *data_lock = Some(recv_sensor_data.clone()), and the end of the block
ReceiverWriteSlot ==
    /\ recv_pc = "write"
    /\ shared_sensor_data' = recv_sensor_data
    /\ slot_lock' = SlotGuardDropped(slot_lock)
    /\ recv_pc' = "metrics"
    /\ UNCHANGED <<procVars, actuator_tx, pidVars, cmdVars, schedVars, rep_pc, mainVars, metVars, sensor_rx,
                   sensor_open, generated, proc_pc, data_ch, trans_pc, act_ch, recv_sensor_data,
                   metrics_lock, proc_in, proc_out, handled>>

\* add_metrics: self.metrics.lock()
ReceiverLockMetrics ==
    /\ recv_pc = "metrics"
    /\ metrics_lock = "free"
    /\ metrics_lock' = "receiver"
    /\ recv_pc' = "push"
    /\ UNCHANGED <<procVars, actuator_tx, pidVars, cmdVars, schedVars, rep_pc, mainVars, metVars, sensor_rx,
                   sensor_open, generated, proc_pc, data_ch, trans_pc, act_ch, recv_sensor_data,
                   shared_sensor_data, slot_lock, proc_in, proc_out, handled>>

\* add_metrics: the sample is pushed and the lock released
ReceiverAddMetrics ==
    /\ recv_pc = "push"
    /\ metrics' = AddMetrics(metrics, StageSample("sensor_receive"))
    /\ window' = window \cup {StageSample("sensor_receive")}
    /\ added' = added \cup {StageSample("sensor_receive")}
    /\ met_sent' = met_sent + 1
    /\ metrics_lock' = "free"
    /\ recv_pc' = "recv"
    /\ UNCHANGED <<procVars, actuator_tx, pidVars, cmdVars, schedVars, rep_pc, mainVars, metrics_rx,
                   metrics_open, met_pc, report_interval, since_report, reports, sensor_rx,
                   sensor_open, generated, proc_pc, data_ch, trans_pc, act_ch, recv_sensor_data,
                   shared_sensor_data, slot_lock, proc_in, proc_out, handled>>

\* the variables of the pipeline a reporter leaves alone
reporterFrame ==
    <<procVars, actuator_tx, pidVars, cmdVars, schedVars, mainVars, metrics_rx, metrics_open,
      met_sent, met_pc, report_interval, since_report, added, sensor_rx, sensor_open,
      generated, proc_pc, data_ch, trans_pc, act_ch, recv_pc, recv_sensor_data,
      shared_sensor_data, slot_lock, proc_in, proc_out, handled>>

\* a reporter holding the Arc<MetricsCollector> calls generate_report: lock()
ReporterLockReport ==
    /\ rep_pc = "idle"
    /\ Len(reports) < MaxReports
    /\ metrics_lock = "free"
    /\ metrics_lock' = "reporter"
    /\ rep_pc' = "report"
    /\ UNCHANGED <<reporterFrame, metrics, window, reports>>

\* generate_report: the report is computed and the guard dropped on return
ReporterGenerateReport ==
    /\ rep_pc = "report"
    /\ reports' = Append(reports, [stats |-> GenerateReport(metrics),
                                   samples |-> Held(metrics),
                                   window |-> window])
    /\ metrics_lock' = "free"
    /\ rep_pc' = "between"
    /\ UNCHANGED <<reporterFrame, metrics, window>>

\* the reporter calls clear_metrics: lock()
ReporterLockClear ==
    /\ rep_pc = "between"
    /\ metrics_lock = "free"
    /\ metrics_lock' = "reporter"
    /\ rep_pc' = "clear"
    /\ UNCHANGED <<reporterFrame, metrics, window, reports>>

\* clear_metrics: every list is cleared and the guard dropped on return
ReporterClearMetrics ==
    /\ rep_pc = "clear"
    /\ metrics' = ClearMetrics(metrics)
    /\ window' = {}
    /\ metrics_lock' = "free"
    /\ rep_pc' = "idle"
    /\ UNCHANGED <<reporterFrame, reports>>

----------------------------------------------------------------------------
(* The two-thread program of main.rs: student_a_sensor_module and            *)
(* student_b_actuator_module, coupled by the sensor and feedback channels   *)

\* bounded(100), scaled down
QueueCapacity == 2

\* the forces of the filtered samples (generate_sensor_data draws them from 40..60),
\* and the number of anomalies detected in one
Forces == {45, 55}
AnomalyCounts == 0..2

MaxConsecutiveErrors == 10
MaxForce == 100

NoSample == [force |-> 0 - 1]
NoFeedback == [status |-> "none"]
NoArmCommand == [grip_force |-> 0 - 1, priority |-> 0]
NoSampleYet ==
    [anomalies |-> 0, processing_time |-> FALSE, sent |-> FALSE, transmission_time |-> FALSE]

TryRecv_Never(ch) == [ok |-> FALSE, rest |-> ch]

\* feedback_rx.try_recv(): Ok with the oldest message, or Err
TryRecv(ch) == IF ch # <<>> THEN [ok |-> TRUE, rest |-> Tail(ch)]
                            ELSE [ok |-> FALSE, rest |-> ch]

\* calculate_priority, for a sample whose position and temperature are normal
CalculatePriority(data) == IF data.force > 70 \/ data.force < 30 THEN 3 ELSE 1

\* the ActuatorCommand the actuator stage creates from a sample
ArmCommand(data) == [grip_force |-> data.force, priority |-> CalculatePriority(data)]

\* command_queue.sort_by(|a, b| b.priority.cmp(&a.priority)): stable, highest first
RECURSIVE SortByPriority(_)
SortByPriority(q) ==
    IF q = <<>> THEN <<>>
    ELSE LET first == CHOOSE i \in 1..Len(q) :
                        /\ \A j \in 1..Len(q) : q[j].priority <= q[i].priority
                        /\ \A j \in 1..(i - 1) : q[j].priority < q[i].priority
         IN  <<q[first]>> \o SortByPriority(SubSeq(q, 1, first - 1)
                                               \o SubSeq(q, first + 1, Len(q)))

ShouldTransmit_AtMostTwo(anomalies) == anomalies <= 2

\* `if anomalies.len() <= 1`: the sample is transmitted
ShouldTransmit(anomalies) == anomalies <= 1

BackoffApplied_AtTen(consecutive_errors) == consecutive_errors >= MaxConsecutiveErrors

\* `if consecutive_errors > max_consecutive_errors`: the stage sleeps 100 ms
BackoffApplied(consecutive_errors) == consecutive_errors > MaxConsecutiveErrors

ShouldExecute_WhenBacklogged(q) == Len(q) > 1

\* `if !command_queue.is_empty()`: a command is taken for execution
ShouldExecute(q) == q # <<>>

\* PIDController::new of main.rs
MainPIDNew(kp, ki, kd, dt) ==
    [kp |-> kp, ki |-> ki, kd |-> kd, previous_error |-> Zero, integral |-> Zero,
     dt |-> dt]

MainPIDCompute_StaleIntegral(c, setpoint, measurement) ==
    LET error == RSub(setpoint, measurement)
        p_term == RMul(c.kp, error)
        integral == RAdd(c.integral, RMul(error, c.dt))
        i_term == RMul(c.ki, c.integral)
        derivative == RDiv(RSub(error, c.previous_error), c.dt)
        d_term == RMul(c.kd, derivative)
    IN  [controller |-> [c EXCEPT !.integral = integral, !.previous_error = error],
         value |-> RAdd(RAdd(p_term, i_term), d_term)]

\* PIDController::compute of main.rs: the controller after the call and the value
\* returned
MainPIDCompute(c, setpoint, measurement) ==
    LET error == RSub(setpoint, measurement)
        p_term == RMul(c.kp, error)
        integral == RAdd(c.integral, RMul(error, c.dt))
        i_term == RMul(c.ki, integral)
        derivative == RDiv(RSub(error, c.previous_error), c.dt)
        d_term == RMul(c.kd, derivative)
    IN  [controller |-> [c EXCEPT !.integral = integral, !.previous_error = error],
         value |-> RAdd(RAdd(p_term, i_term), d_term)]

\* the controller of an axis of the arm: PIDController::new(0.5, 0.1, 0.01, 0.005)
ArmPID == MainPIDNew(Rat(1, 2), Rat(1, 10), Rat(1, 100), Rat(1, 200))

InitStages ==
    /\ main_sensor_ch = <<>>
    /\ main_feedback_ch = <<>>
    /\ student_a = "top"
    /\ student_b = "recv"
    /\ a_filtered_data = NoSample
    /\ b_feedback = NoFeedback
    /\ b_command_queue = <<>>
    /\ a_consecutive_errors = 0
    /\ b_consecutive_errors = 0
    /\ a_send_errors = 0
    /\ b_receive_errors = 0
    /\ b_send_errors = 0
    /\ a_sample = NoSampleYet
    /\ a_errors_since_success = 0
    /\ b_errors_since_success = 0
    /\ b_command = NoArmCommand
    /\ arm_current_force = 0
    /\ arm_calls = <<>>
    /\ main_pid_out = NoOutput

InitMain == InitStages /\ main_pid = ArmPID

\* the sensor stage from the top of its loop to its send: try_recv of one
\* feedback, a sample generated and filtered, anomalies detected in it, the
\* processing time recorded
SensorIterate(force, anomalies) ==
    /\ student_a = "top"
    /\ LET received == TryRecv(main_feedback_ch)
       IN  /\ main_feedback_ch' = received.rest
           /\ a_consecutive_errors' = IF received.ok THEN 0 ELSE a_consecutive_errors
           /\ a_errors_since_success' = IF received.ok THEN 0 ELSE a_errors_since_success
    /\ a_sample' = [anomalies |-> anomalies, processing_time |-> TRUE, sent |-> FALSE,
                    transmission_time |-> FALSE]
    /\ IF ShouldTransmit(anomalies)
       THEN /\ a_filtered_data' = [force |-> force]
            /\ student_a' = "send"
       ELSE /\ a_filtered_data' = NoSample
            /\ student_a' = "top"
    /\ UNCHANGED <<exceptMain, main_sensor_ch, actuatorSide, a_send_errors, armAlone>>

\* sensor_tx.send(filtered_data): blocks while the channel is full, fails once
\* the receiver is gone; on Ok the transmission time is recorded, on Err the
\* error is counted and the backoff may follow; either way the loop goes on
SensorSend ==
    /\ student_a = "send"
    /\ IF student_b # "panicked"
       THEN /\ Len(main_sensor_ch) < QueueCapacity
            /\ main_sensor_ch' = ChannelSend(main_sensor_ch, a_filtered_data)
            /\ a_sample' = [a_sample EXCEPT !.sent = TRUE, !.transmission_time = TRUE]
            /\ a_consecutive_errors' = 0
            /\ a_errors_since_success' = 0
            /\ student_a' = "top"
            /\ UNCHANGED a_send_errors
       ELSE /\ a_send_errors < MaxErrors
            /\ a_send_errors' = a_send_errors + 1
            /\ a_consecutive_errors' = a_consecutive_errors + 1
            /\ a_errors_since_success' = a_errors_since_success + 1
            /\ student_a' = IF BackoffApplied(a_consecutive_errors + 1) THEN "backoff"
                                                                        ELSE "top"
            /\ UNCHANGED <<main_sensor_ch, a_sample>>
    /\ a_filtered_data' = NoSample
    /\ UNCHANGED <<exceptMain, main_feedback_ch, actuatorSide, armAlone>>

\* thread::sleep(Duration::from_millis(100)) of the sensor stage is over
SensorBackoffDone ==
    /\ student_a = "backoff"
    /\ student_a' = "top"
    /\ UNCHANGED <<exceptMain, main_sensor_ch, main_feedback_ch, actuatorSide, armAlone,
                   a_filtered_data, a_consecutive_errors, a_send_errors, a_sample,
                   a_errors_since_success>>

\* the sensor thread unwinds (println! on a closed stdout, unwrap of a poisoned
\* lock): sensor_tx and feedback_rx are dropped
SensorThreadPanics ==
    /\ student_a # "panicked"
    /\ student_a' = "panicked"
    /\ a_filtered_data' = NoSample
    /\ UNCHANGED <<exceptMain, main_sensor_ch, main_feedback_ch, actuatorSide, armAlone,
                   a_consecutive_errors, a_send_errors, a_sample, a_errors_since_success>>

ArmStatuses == {"Normal", "CalibrationNeeded"}

\* RoboticArm::apply_force: the status it returns
ApplyForce(force) == IF force > MaxForce THEN "Overloaded" ELSE "Normal"

StoredForce_Unclamped(force) == force

\* RoboticArm::apply_force: the force it stores in current_force
StoredForce(force) == IF force > MaxForce THEN MaxForce ELSE force

\* overall_status of the actuator stage
OverallStatus(force_status, arm_status) ==
    IF force_status = "Overloaded" THEN force_status ELSE arm_status

\* the feedback built after a command with this grip force was applied to the arm
\* and the arm's update returned arm_status
ArmFeedback(force, arm_status) ==
    [status |-> OverallStatus(ApplyForce(force), arm_status),
     current_force |-> StoredForce(force)]

\* q without the elements at the positions in old
RECURSIVE Without(_, _)
Without(q, old) ==
    IF q = <<>> THEN <<>>
    ELSE LET rest == Without(SubSeq(q, 1, Len(q) - 1), old)
         IN  IF Len(q) \in old THEN rest ELSE Append(rest, q[Len(q)])

\* the actuator stage at its recv_timeout: the three arms of the match; on Ok
\* the command is created, queued and the queue sorted
ActuatorReceive ==
    /\ student_b = "recv"
    /\ LET arm == IF main_sensor_ch # <<>> THEN "Ok"
                  ELSE IF student_a # "panicked" THEN "Timeout" ELSE "Disconnected"
           data == Head(main_sensor_ch)
       IN  /\ arm = "Disconnected" => b_receive_errors < MaxErrors
           /\ main_sensor_ch' = IF arm = "Ok" THEN Tail(main_sensor_ch) ELSE main_sensor_ch
           /\ b_consecutive_errors' = CASE arm = "Ok" -> 0
                                        [] arm = "Timeout" -> b_consecutive_errors
                                        [] arm = "Disconnected" -> b_consecutive_errors + 1
           /\ b_errors_since_success' = CASE arm = "Ok" -> 0
                                          [] arm = "Timeout" -> b_errors_since_success
                                          [] arm = "Disconnected" -> b_errors_since_success + 1
           /\ b_receive_errors' = IF arm = "Disconnected" THEN b_receive_errors + 1
                                  ELSE b_receive_errors
           /\ b_command_queue' = IF arm = "Ok"
                                 THEN SortByPriority(Append(b_command_queue, ArmCommand(data)))
                                 ELSE b_command_queue
           /\ student_b' = IF arm = "Disconnected" /\ BackoffApplied(b_consecutive_errors + 1)
                           THEN "backoff_recv" ELSE "execute"
    /\ UNCHANGED <<exceptMain, main_feedback_ch, sensorSide, armAlone, b_feedback,
                   b_send_errors, b_command, arm_current_force>>

\* the actuator stage at `if !command_queue.is_empty()`: the first command of the
\* queue is removed and applied to the arm (whose update returns arm_status), and
\* the feedback is built
ActuatorExecute(arm_status) ==
    /\ student_b = "execute"
    /\ IF ShouldExecute(b_command_queue)
       THEN LET command == Head(b_command_queue)
            IN  /\ b_command' = command
                /\ b_command_queue' = Tail(b_command_queue)
                /\ arm_current_force' = StoredForce(command.grip_force)
                /\ b_feedback' = ArmFeedback(command.grip_force, arm_status)
                /\ student_b' = "feedback"
       ELSE /\ student_b' = "recv"
            /\ UNCHANGED <<b_command, b_command_queue, arm_current_force, b_feedback>>
    /\ UNCHANGED <<exceptMain, main_sensor_ch, main_feedback_ch, sensorSide, armAlone,
                   b_consecutive_errors, b_receive_errors, b_send_errors,
                   b_errors_since_success>>

\* the actuator thread unwinds on data_age = now - data.timestamp, a u128
\* subtraction that overflows when the sample's timestamp is the later one
\* (builds with overflow checks): sensor_rx and feedback_tx are dropped
ActuatorThreadPanics ==
    /\ student_b = "recv"
    /\ main_sensor_ch # <<>>
    /\ main_sensor_ch' = Tail(main_sensor_ch)
    /\ student_b' = "panicked"
    /\ UNCHANGED <<exceptMain, main_feedback_ch, sensorSide, armAlone, b_feedback,
                   b_command_queue, b_consecutive_errors, b_receive_errors, b_send_errors,
                   b_errors_since_success, b_command, arm_current_force>>

\* command_queue.retain(..): the commands older than 50 ms are dropped, then the
\* iteration is over
ActuatorPurge ==
    /\ \E old \in SUBSET (1..Len(b_command_queue)) :
          b_command_queue' = Without(b_command_queue, old)
    /\ b_feedback' = NoFeedback
    /\ b_command' = NoArmCommand
    /\ student_b' = "recv"

\* feedback_tx.send(feedback): blocks while the channel is full, fails once the
\* receiver is gone; on Err the error is counted and the backoff may follow;
\* then the old commands are purged and the loop goes on
ActuatorSendFeedback ==
    /\ student_b = "feedback"
    /\ IF student_a # "panicked"
       THEN /\ Len(main_feedback_ch) < QueueCapacity
            /\ main_feedback_ch' = ChannelSend(main_feedback_ch, b_feedback)
            /\ b_consecutive_errors' = 0
            /\ b_errors_since_success' = 0
            /\ UNCHANGED b_send_errors
            /\ ActuatorPurge
       ELSE /\ b_send_errors < MaxErrors
            /\ b_send_errors' = b_send_errors + 1
            /\ b_consecutive_errors' = b_consecutive_errors + 1
            /\ b_errors_since_success' = b_errors_since_success + 1
            /\ UNCHANGED main_feedback_ch
            /\ IF BackoffApplied(b_consecutive_errors + 1)
               THEN /\ student_b' = "backoff_send"
                    /\ UNCHANGED <<b_command_queue, b_feedback, b_command>>
               ELSE ActuatorPurge
    /\ UNCHANGED <<exceptMain, main_sensor_ch, sensorSide, armAlone, b_receive_errors,
                   arm_current_force>>

\* thread::sleep(Duration::from_millis(100)) of the actuator stage is over: after
\* a receive error the iteration goes on to the execution, after a send error to
\* the purge
ActuatorBackoffDone ==
    /\ student_b \in {"backoff_recv", "backoff_send"}
    /\ IF student_b = "backoff_recv"
       THEN /\ student_b' = "execute"
            /\ UNCHANGED <<b_command_queue, b_feedback, b_command>>
       ELSE ActuatorPurge
    /\ UNCHANGED <<exceptMain, main_sensor_ch, main_feedback_ch, sensorSide, armAlone,
                   b_consecutive_errors, b_receive_errors, b_send_errors,
                   b_errors_since_success, arm_current_force>>

\* a RoboticArm driven on its own: apply_force(force), update() returning arm_status,
\* and the feedback built from the two
ArmForces == {50, 100, 120}

ArmExecute(force, arm_status) ==
    /\ Len(arm_calls) < MaxCalls
    /\ arm_current_force' = StoredForce(force)
    /\ b_feedback' = ArmFeedback(force, arm_status)
    /\ arm_calls' = Append(arm_calls, [force |-> force, force_status |-> ApplyForce(force),
                                       arm_status |-> arm_status])
    /\ UNCHANGED <<exceptMain, main_sensor_ch, main_feedback_ch, sensorSide, student_b,
                   b_command_queue, b_consecutive_errors, b_receive_errors, b_send_errors,
                   b_errors_since_success, b_command, main_pid, main_pid_out>>

\* the two controllers driven side by side: one compute of the PIDController of
\* actuator/controller.rs, passed the dt the PIDController of main.rs was built
\* with, and one compute of the latter, on the same setpoint and measurement
ComputeBoth(setpoint, measurement) ==
    /\ Len(pid_hist) < MaxCalls
    /\ LET r == PIDCompute(pid, setpoint, measurement, main_pid.dt)
           m == MainPIDCompute(main_pid, setpoint, measurement)
       IN  /\ pid' = r.controller
           /\ pid_out' = r.value
           /\ main_pid' = m.controller
           /\ main_pid_out' = m.value
    /\ pid_hist' = Append(pid_hist,
                     [setpoint |-> setpoint, measurement |-> measurement,
                      dt |-> main_pid.dt])
    /\ UNCHANGED <<procVars, actuator_tx, cmdVars, schedVars, metVars, pipeVars, rep_pc,
                   main_sensor_ch, main_feedback_ch, sensorSide, actuatorSide, arm_calls>>

----------------------------------------------------------------------------
(* Specifications *)

InitExtIdle == InitSchedIdle /\ InitMet /\ InitPipe /\ InitMain

\* run_processor
Init == InitProc /\ actuator_tx = <<>> /\ InitPIDIdle /\ InitCmd /\ InitExtIdle
Next == \E raw \in SensorData : RunProcessor(raw)
Spec == Init /\ [][Next]_vars

\* the readings passed to process between adjust_threshold calls: each sensor
\* reports its own kind
CallReadings ==
    {r \in SensorData :
        /\ ~r.is_anomaly
        /\ r.reading_type = (IF r.sensor_id = "force_sensor_1" THEN "Force" ELSE "Position")}

NewThresholds == {Rat(1, 2)}

\* DataProcessor under any sequence of process and adjust_threshold calls
NextProc ==
    \/ \E raw \in CallReadings : RunProcessor(raw)
    \/ \E sensor_type \in SensorTypes, new_threshold \in NewThresholds :
          AdjustThreshold(sensor_type, new_threshold)
SpecProc == Init /\ [][NextProc]_vars

\* a stream of readings of one Force sensor: normal readings of magnitude 1 and
\* injected outliers of 4 times that magnitude
Outlier == <<4, 1>>

StreamReadings ==
    {r \in [sensor_id : {"force_sensor_1"}, reading_type : {"Force"}, value : {One, Outlier},
            is_anomaly : BOOLEAN, confidence : Confidences] : ~r.is_anomaly}

NextStream == \E raw \in StreamReadings : RunProcessor(raw)
SpecStream == Init /\ [][NextStream]_vars

\* PIDController under any sequence of compute calls
InitP == InitProc /\ actuator_tx = <<>> /\ InitPID /\ InitCmd /\ InitExtIdle
NextP == \E s \in Setpoints, m \in Measurements, dt \in Dts : Compute(s, m, dt)
SpecPID == InitP /\ [][NextP]_vars

\* the command path
InitC == InitProc /\ actuator_tx = <<>> /\ InitPIDIdle /\ InitCmd /\ InitExtIdle
NextC ==
    \/ \E d \in TickSteps : Tick(d)
    \/ \E r \in GeneratedReadings : GenerateCommand(r)
    \/ \E r \in GeneratedReadings : SensorBinConvert(r)
    \/ TransmitterPublish
    \/ TransmitterPublishFails
    \/ ActuatorConsume
    \/ \E ok \in BOOLEAN : ActuatorPublish(ok)
    \/ \E ok \in BOOLEAN : ActuatorAck(ok)
SpecCmd == InitC /\ [][NextC]_vars

\* the consumer of the command queue, as run_actuator_system or as the actuator binary
InitA ==
    /\ InitProc /\ actuator_tx = <<>> /\ InitPIDIdle /\ InitExtIdle
    /\ \E program \in ActuatorPrograms : InitCmdOf(program)
NextA ==
    \/ \E r \in GeneratedReadings : SensorBinConvert(r)
    \/ TransmitterPublish
    \/ ActuatorConsume
    \/ \E ok \in BOOLEAN : ActuatorPublish(ok)
    \/ \E ok \in BOOLEAN : ActuatorAck(ok)
SpecAct == InitA /\ [][NextA]_vars

\* the scheduler thread
InitS ==
    InitProc /\ actuator_tx = <<>> /\ InitPIDIdle /\ InitCmd /\ InitSched /\ InitMet /\ InitPipe
    /\ InitMain
NextS ==
    \/ SchedStart
    \/ \E d \in TaskDurations : SchedInvoke(d)
    \/ \E o \in Oversleeps : SchedSleep(o)
    \/ SchedMiss
SpecSched == InitS /\ [][NextS]_vars

\* the scheduler thread is always scheduled again, and the task returns
SpecSchedFair == SpecSched /\ WF_vars(NextS)

\* run_metrics_collector and the senders of its channel
NextM ==
    \/ \E s \in Samples : SendMetrics(s)
    \/ CloseMetrics
    \/ \E d \in TickElapsed : CollectorTick(d)
    \/ CollectorRecv
    \/ CollectorEmpty
    \/ CollectorDisconnected
SpecMetrics == Init /\ [][NextM]_vars

\* the pipeline from the sensor array to the actuator's receiver
NextPipe ==
    \/ \E r \in GeneratedReadings : SourceSend(r)
    \/ SourceClose
    \/ ProcessorLoop
    \/ \E connected \in BOOLEAN : TransmitterSetup(connected)
    \/ TransmitterLoop
    \/ ReceiverLoop
    \/ ReceiverLockSlot
    \/ ReceiverWriteSlot
    \/ ReceiverLockMetrics
    \/ ReceiverAddMetrics
SpecPipe == Init /\ [][NextPipe]_vars

\* the pipeline fed by SensorGenerator::run, the receiver of the metrics channel
\* being dropped at any moment
NextPipeMet ==
    \/ \E r \in GeneratedReadings : GeneratorLoop(r)
    \/ MetricsReceiverDropped
    \/ ProcessorLoop
    \/ \E connected \in BOOLEAN : TransmitterSetup(connected)
    \/ TransmitterLoop
    \/ ReceiverLoop
    \/ ReceiverLockSlot
    \/ ReceiverWriteSlot
    \/ ReceiverLockMetrics
    \/ ReceiverAddMetrics
SpecPipeMet == Init /\ [][NextPipeMet]_vars

\* the pipeline with a reporter thread sharing the collector of ReceiverTask
NextShared ==
    \/ NextPipe
    \/ ReporterLockReport
    \/ ReporterGenerateReport
    \/ ReporterLockClear
    \/ ReporterClearMetrics
SpecShared == Init /\ [][NextShared]_vars

\* the two threads of main.rs
NextMain ==
    \/ \E force \in Forces, anomalies \in AnomalyCounts : SensorIterate(force, anomalies)
    \/ SensorSend
    \/ SensorThreadPanics
    \/ SensorBackoffDone
    \/ ActuatorReceive
    \/ \E arm_status \in ArmStatuses : ActuatorExecute(arm_status)
    \/ ActuatorThreadPanics
    \/ ActuatorSendFeedback
    \/ ActuatorBackoffDone
SpecMain == Init /\ [][NextMain]_vars

\* the two PID controllers built with the same gains and driven with the same inputs
InitPair ==
    /\ InitProc /\ actuator_tx = <<>> /\ InitCmd
    /\ InitSchedIdle /\ InitMet /\ InitPipe
    /\ \E kp \in Gains, ki \in Gains, kd \in Gains, dt \in Dts :
          /\ pid = PIDNew(kp, ki, kd)
          /\ main_pid = MainPIDNew(kp, ki, kd, dt)
    /\ pid_out = NoOutput
    /\ pid_hist = <<>>
    /\ InitStages
NextPair == \E s \in Setpoints, m \in Measurements : ComputeBoth(s, m)
SpecPIDPair == InitPair /\ [][NextPair]_vars

\* a DataTransmitter of any connection type, configured and called in any order
InitT ==
    /\ InitProc /\ actuator_tx = <<>> /\ InitPIDIdle /\ InitExtIdle
    /\ InitPath("run_actuator_system")
    /\ \E connection_type \in ConnectionTypes : transmitter = DTNew(connection_type)
    /\ dt_result = NoCall
    /\ dt_calls = 0
NextT ==
    \/ WithTcpEndpoint
    \/ WithSharedMemory
    \/ \E io_ok \in BOOLEAN : Connect(io_ok)
    \/ \E io_ok \in BOOLEAN : SendData(io_ok)
    \/ \E io_ok \in BOOLEAN : ReceiveFeedback(io_ok)
SpecTransmitter == InitT /\ [][NextT]_vars

\* a RoboticArm driven on its own
NextArm == \E force \in ArmForces, arm_status \in ArmStatuses : ArmExecute(force, arm_status)
SpecArm == Init /\ [][NextArm]_vars

\* every stage is a thread that is always scheduled again
SpecPipeFair ==
    /\ SpecPipe
    /\ WF_vars(ProcessorLoop)
    /\ WF_vars(\E connected \in BOOLEAN : TransmitterSetup(connected))
    /\ WF_vars(TransmitterLoop)
    /\ WF_vars(ReceiverLoop \/ ReceiverLockSlot \/ ReceiverWriteSlot
                  \/ ReceiverLockMetrics \/ ReceiverAddMetrics)

----------------------------------------------------------------------------
(* Claims about DataProcessor::process, checked under Spec *)

\* run_processor has handled at least one reading
Processed == raw_data # NoData

\* the statistics held for the sensor of the reading handled last
CurStats == moving_averages[raw_data.sensor_id]

\* the z-score of the raw value of the reading handled last
RawZScore == RDiv(RAbs(RSub(raw_data.value, CurStats.mean)), CurStats.std_dev)

\* C1: once 10 readings are accumulated for the sensor and std_dev > 0, the
\* returned is_anomaly is true exactly when |raw value - mean| / std_dev
\* exceeds the threshold of the reading's kind.
C1_AnomalyIffRawZScore ==
    (Processed /\ CurStats.count >= 10 /\ RLt(Zero, CurStats.std_dev))
        => (processed_data.is_anomaly
              <=> RLt(anomaly_thresholds[raw_data.reading_type], RawZScore))

\* C2 as stated: the returned confidence always lies in [0.1, 0.95].
C2_ConfidenceIn01To095 ==
    Processed => /\ RLe(Rat(1, 10), processed_data.confidence)
                 /\ RLe(processed_data.confidence, Rat(95, 100))

\* C2 amended: the returned confidence is 0.0 when std_dev = 0 and lies in
\* [0.1, 1.0] when std_dev > 0; so it always lies in [0.0, 1.0].
C2_ConfidenceZeroOrIn01To1 ==
    Processed =>
        /\ (CurStats.std_dev = Zero) => (processed_data.confidence = Zero)
        /\ RLt(Zero, CurStats.std_dev) =>
              /\ RLe(Rat(1, 10), processed_data.confidence)
              /\ RLe(processed_data.confidence, One)

C2_Witness ==
    /\ Processed
    /\ RLt(Zero, CurStats.std_dev)
    /\ processed_data.confidence = One
    /\ raw_data.value # CurStats.mean

\* C5: the value of the returned reading is the arithmetic mean of all raw
\* values passed for its sensor_id so far, the current one included.
C5_ValueIsArithmeticMean ==
    Processed =>
        processed_data.value =
            RDiv(seen[raw_data.sensor_id].sum, <<seen[raw_data.sensor_id].n, 1>>)

C5_Witness ==
    /\ Processed
    /\ seen[raw_data.sensor_id].n = 3
    /\ processed_data.value = Rat(2, 3)
    /\ raw_data.value = Zero

\* C6: while fewer than 10 readings are accumulated for the sensor, the
\* returned is_anomaly and confidence are those of the input reading.
C6_PassThroughBelowTen ==
    (Processed /\ CurStats.count < 10) =>
        /\ processed_data.is_anomaly = raw_data.is_anomaly
        /\ processed_data.confidence = raw_data.confidence

\* C7: when the std_dev accumulated for the reading's sensor is 0, the
\* returned is_anomaly is false whatever the input flag was, and the returned
\* confidence is the same fixed floor (0.0) for every such reading.
C7_ZeroStdDevForcesFalseAndFloor ==
    (Processed /\ CurStats.std_dev = Zero) =>
        /\ processed_data.is_anomaly = FALSE
        /\ processed_data.confidence = Zero

C7_Witness ==
    /\ Processed
    /\ CurStats.std_dev = Zero
    /\ CurStats.count >= 2
    /\ raw_data.is_anomaly = TRUE
    /\ processed_data.is_anomaly = FALSE

\* C22: the standard deviation held for a sensor_id is never negative, and is
\* 0 after the first reading of that sensor_id.
C22_StdDevNonNegativeZeroAtFirst ==
    \A id \in SensorIds :
        moving_averages[id] # NoStats =>
            /\ RLe(Zero, moving_averages[id].std_dev)
            /\ moving_averages[id].count = 1 => moving_averages[id].std_dev = Zero

\* one sensor after its first reading, the other with a positive deviation
C22_Witness ==
    /\ moving_averages["force_sensor_1"] # NoStats
    /\ moving_averages["force_sensor_1"].count = 1
    /\ moving_averages["position_sensor_1"] # NoStats
    /\ RLt(Zero, moving_averages["position_sensor_1"].std_dev)

\* C27: process compares the mean with itself, so its z-score is 0 for every
\* reading: the reading it returns carries the mean as its value and is never
\* flagged, and run_processor never sends a command on the actuator channel.
C27_NeverAnomalyNeverCommand ==
    Processed =>
        /\ processed_data.value = CurStats.mean
        /\ ~processed_data.is_anomaly
        /\ actuator_tx = <<>>

\* a tenth reading whose raw value is beyond the threshold, flagged on input
C27_Witness ==
    /\ Processed
    /\ CurStats.count >= 10
    /\ RLt(Zero, CurStats.std_dev)
    /\ RLt(anomaly_thresholds[raw_data.reading_type], RawZScore)
    /\ raw_data.is_anomaly
    /\ ~processed_data.is_anomaly

----------------------------------------------------------------------------
(* Claims about process and adjust_threshold, checked under SpecProc *)

\* the number of readings accumulated for a sensor_id
CountOf(m, id) == m[id].count

\* C23: each sensor_id has its own accumulator, created on its first reading:
\* the accumulator exists exactly when the sensor has been read, and holds the
\* number of its readings; a process call adds exactly 1 to the count of the
\* sensor of its reading and leaves every other accumulator as it was; no
\* step decreases a count or removes an accumulator.
C23_AccumulatorPerSensor ==
    /\ [](\A id \in SensorIds :
            /\ (moving_averages[id] # NoStats) <=> (seen[id].n > 0)
            /\ CountOf(moving_averages, id) = seen[id].n)
    /\ [][\A id \in SensorIds :
            /\ IF tx' # tx /\ id = raw_data'.sensor_id
               THEN CountOf(moving_averages', id) = CountOf(moving_averages, id) + 1
               ELSE moving_averages'[id] = moving_averages[id]
            /\ CountOf(moving_averages', id) >= CountOf(moving_averages, id)
            /\ moving_averages[id] # NoStats => moving_averages'[id] # NoStats]_vars

\* both sensors read, a different number of times, and a threshold replaced
C23_Witness ==
    /\ CountOf(moving_averages, "force_sensor_1") = 3
    /\ CountOf(moving_averages, "position_sensor_1") = 1
    /\ anomaly_thresholds # DefaultThresholds

\* C24: the thresholds start as Force 2.5, Position 3.0, Velocity 2.8 and
\* Temperature 3.5; a step that changes a threshold changes the threshold of
\* one kind only and leaves the accumulated statistics as they were; every
\* process call looks up the threshold currently held for the kind of its
\* reading.
C24_ThresholdsDefaultAndAdjusted ==
    /\ anomaly_thresholds = [Force |-> Rat(5, 2), Position |-> <<3, 1>>,
                             Velocity |-> Rat(14, 5), Temperature |-> Rat(7, 2)]
    /\ [][anomaly_thresholds' # anomaly_thresholds =>
            /\ Cardinality({k \in SensorTypes :
                               anomaly_thresholds'[k] # anomaly_thresholds[k]}) = 1
            /\ moving_averages' = moving_averages]_vars
    /\ [][tx' # tx => proc_threshold' = anomaly_thresholds[raw_data'.reading_type]]_vars

\* a Force reading processed with the replaced Force threshold, the Position
\* threshold still the default
C24_Witness ==
    /\ Processed
    /\ raw_data.reading_type = "Force"
    /\ proc_threshold = Rat(1, 2)
    /\ anomaly_thresholds["Position"] = <<3, 1>>
    /\ CountOf(moving_averages, "position_sensor_1") >= 1

----------------------------------------------------------------------------
(* Claim about the end-to-end count of commands, checked under SpecStream *)

\* the number of outliers among the readings fed to the Force sensor so far
InjectedOutliers ==
    (seen["force_sensor_1"].sum[1] - seen["force_sensor_1"].n) \div (Outlier[1] - 1)

\* C26: each injected outlier after warm-up yields a command and normal
\* readings yield none: when the latest of at least 10 readings is the only
\* outlier injected so far, exactly one command has been sent.
C26_OutliersYieldCommands ==
    (Processed /\ raw_data.value = Outlier /\ seen["force_sensor_1"].n >= 10
        /\ InjectedOutliers = 1)
        => Len(actuator_tx) = 1

----------------------------------------------------------------------------
(* Claims about the command path, checked under SpecCmd *)

\* C3: no command is executed after its deadline: a command whose deadline is
\* earlier than the time at which the actuator side takes it from the queue
\* is never forwarded (nor answered with feedback).
C3_NoCommandForwardedAfterDeadline ==
    \A i \in DOMAIN forwarded : forwarded[i].taken_at <= forwarded[i].command.deadline

CreatedCommands ==
    {actuator_tx[i] : i \in DOMAIN actuator_tx} \cup {bin_sent[i] : i \in DOMAIN bin_sent}

\* C25: a command created for a reading whose anomaly flag is set has a
\* priority strictly higher than that of any command created for a reading
\* whose flag is not set, whichever constructor created either of them.
C25_AnomalyPriorityElevated ==
    \A c1, c2 \in CreatedCommands :
        (c1.source.is_anomaly /\ ~c2.source.is_anomaly) => c1.priority > c2.priority

----------------------------------------------------------------------------
(* Claims about PIDController::compute, checked under SpecPID *)

PIDError(call) == RSub(call.setpoint, call.measurement)

\* the sum of (setpoint - measurement) * dt over the first n calls
RECURSIVE SumErrorDt(_, _)
SumErrorDt(hist, n) ==
    IF n = 0 THEN Zero
    ELSE RAdd(SumErrorDt(hist, n - 1), RMul(PIDError(hist[n]), hist[n].dt))

\* the single call compute(10, 7, 1.0) on a fresh controller with gains 1, 0, 0
C8_Case ==
    /\ pid_hist = <<[setpoint |-> <<10, 1>>, measurement |-> <<7, 1>>, dt |-> One]>>
    /\ pid.kp = One /\ pid.ki = Zero /\ pid.kd = Zero

\* C8 as stated: that call returns 3.0 and leaves the integral at 0.
C8_Returns3IntegralStays0 ==
    C8_Case => (pid_out = <<3, 1>> /\ pid.integral = Zero)

\* C8 amended: that call returns 3.0 and leaves the integral at 3.0
\* (error * dt), which ki = 0 keeps out of the returned value.
C8_Returns3Integral3 ==
    C8_Case => (pid_out = <<3, 1>> /\ pid.integral = <<3, 1>>)

C8_Witness == C8_Case /\ pid_out = <<3, 1>>

\* C9: after any sequence of compute calls the integral is the sum over all
\* calls of (setpoint - measurement) * dt, unclamped.
C9_IntegralIsSumOfErrorDt ==
    pid.integral = SumErrorDt(pid_hist, Len(pid_hist))

C9_Witness ==
    /\ Len(pid_hist) = 2
    /\ \A i \in 1..2 : PIDError(pid_hist[i]) = <<2, 1>> /\ pid_hist[i].dt = One
    /\ pid.integral = <<4, 1>>

\* C10: for dt > 0 compute returns kp*error + ki*integral' + kd*(error -
\* prev_error)/dt, with integral' including this call's error*dt and
\* prev_error the error of the previous call (0 on the first call); after the
\* call prev_error is the current error.
C10_OutputIsPIDLaw ==
    LET n == Len(pid_hist)
        call == pid_hist[n]
        error == PIDError(call)
        prev_error == IF n = 1 THEN Zero ELSE PIDError(pid_hist[n - 1])
    IN  (n >= 1 /\ RLt(Zero, call.dt)) =>
            /\ pid_out = RAdd(RAdd(RMul(pid.kp, error),
                                   RMul(pid.ki, SumErrorDt(pid_hist, n))),
                              RMul(pid.kd, RDiv(RSub(error, prev_error), call.dt)))
            /\ pid.prev_error = error

C10_Witness ==
    /\ Len(pid_hist) = 2
    /\ pid.kp = One /\ pid.ki = Rat(1, 10) /\ pid.kd = One
    /\ PIDError(pid_hist[1]) = <<3, 1>>
    /\ PIDError(pid_hist[2]) = <<0 - 2, 1>>
    /\ pid_hist[2].dt = Rat(1, 2)
    /\ pid_out = Rat(0 - 239, 20)

----------------------------------------------------------------------------
(* Claims about Scheduler::start, checked under SpecSched and SpecSchedFair *)

\* the scheduler is at the top of its loop after at least one invocation
AtNextIteration == sched_pc = "top" /\ invoked

\* C11 as stated: at the start of every iteration next_instant is not earlier
\* than the end of the previous invocation, and an invocation starts with no
\* sleep before it only if the preceding invocation lasted at least one
\* interval (the 5 ms step of the loop).
C11_NoSleepOnlyAfterLongInvocation ==
    AtNextIteration =>
        /\ next_instant + since_end >= 0
        /\ ~slept => (next_instant = 0 /\ last_duration >= SchedStepMs)

\* C11 amended: at the start of every iteration next_instant is not earlier
\* than the end of the previous invocation; an invocation starts with no
\* sleep before it only if the preceding invocation finished at least one
\* 5 ms step after the next_instant it started from (its duration plus the
\* lateness of its start is at least the step), and next_instant is then the
\* current time.
C11_NoSleepOnlyWhenBehind ==
    AtNextIteration =>
        /\ next_instant + since_end >= 0
        /\ ~slept => (next_instant = 0 /\ last_duration + lag >= SchedStepMs)

C11_Witness ==
    /\ AtNextIteration
    /\ ~slept
    /\ lag > 0
    /\ last_duration < SchedStepMs

\* C12: on every loop iteration next_instant advances by exactly the
\* interval_ms given to Scheduler::new.
C12_AdvancesByConfiguredInterval ==
    invoked => last_advance = sched_interval

\* C13: the task is invoked before any sleep, and the loop never ends: the
\* task is invoked again and again.
C13_InvokedFirstAndForever ==
    /\ [](ever_slept => invoked)
    /\ []<>(sched_pc = "after")

C13_Witness == sched_pc = "after" /\ ever_slept /\ ~slept

----------------------------------------------------------------------------
(* Claims about MetricsCollector, checked under SpecMetrics *)

\* the samples of operation o in a set of samples
OfOperation(w, o) == {s \in w : s.operation = o}

\* C14: reports are windowed.  The collector holds exactly the samples added
\* since the last clear_metrics; every report is made from exactly the samples
\* added since the previous clear, no sample is counted in two reports, and
\* an operation has an entry in a report only if the window holds one of its
\* samples.
C14_ReportsAreWindowed ==
    /\ Held(metrics) = window
    /\ \A i \in 1..Len(reports) :
        /\ reports[i].samples = reports[i].window
        /\ \A j \in 1..Len(reports) :
              i # j => reports[i].samples \cap reports[j].samples = {}
        /\ DOMAIN reports[i].stats = {s.operation : s \in reports[i].window}

\* two non-empty reports, the second without an operation the first had
C14_Witness ==
    /\ Len(reports) = 2
    /\ reports[2].window # {}
    /\ \E o \in DOMAIN reports[1].stats : o \notin DOMAIN reports[2].stats

\* C15: missed_deadlines of an operation is the number of samples of the
\* window whose duration is strictly above the budget, 2 ms for
\* data_processing and 1 ms for data_transmission, and 0 for any other
\* operation.
C15_MissedDeadlinesAboveBudget ==
    \A i \in 1..Len(reports) : \A o \in DOMAIN reports[i].stats :
        LET budget == IF o = "data_processing" THEN ProcessingBudgetMs
                      ELSE TransmissionBudgetMs
            above == {s \in OfOperation(reports[i].window, o) :
                        /\ s.duration_ms # NoDuration
                        /\ s.duration_ms[1] > budget * s.duration_ms[2]}
        IN  reports[i].stats[o].missed_deadlines =
                IF o \in {"data_processing", "data_transmission"}
                THEN Cardinality(above) ELSE 0

\* a report on one sample exactly at the budget and one above it
C15_Witness ==
    \E i \in 1..Len(reports) :
        /\ "data_processing" \in DOMAIN reports[i].stats
        /\ reports[i].stats["data_processing"].missed_deadlines = 1
        /\ \E s \in reports[i].window :
              s.operation = "data_processing" /\ s.duration_ms = <<ProcessingBudgetMs, 1>>

\* C16: total_operations is the number of samples of the operation,
\* success_rate is 100 * successes / total, and add_metrics appends the sample
\* to the list of its operation and leaves every other list as it was.
C16_CountsAndAppendOnly ==
    /\ [](\A i \in 1..Len(reports) : \A o \in DOMAIN reports[i].stats :
            LET of == OfOperation(reports[i].window, o)
                successes == {s \in of : s.success}
            IN  /\ reports[i].stats[o].total_operations = Cardinality(of)
                /\ reports[i].stats[o].success_rate =
                      Rat(Percent * Cardinality(successes), Cardinality(of)))
    /\ [][Len(metrics_rx') < Len(metrics_rx) =>
            LET s == Head(metrics_rx)
                before == IF s.operation \in DOMAIN metrics
                          THEN metrics[s.operation] ELSE <<>>
            IN  /\ DOMAIN metrics' = DOMAIN metrics \cup {s.operation}
                /\ metrics'[s.operation] = Append(before, s)
                /\ \A o \in DOMAIN metrics \ {s.operation} : metrics'[o] = metrics[o]]_vars

\* a report on two operations, one sample each, one successful and one failed
C16_Witness ==
    \E i \in 1..Len(reports) : \E o1, o2 \in DOMAIN reports[i].stats :
        /\ o1 # o2
        /\ reports[i].stats[o1].success_rate = <<Percent, 1>>
        /\ reports[i].stats[o2].success_rate = Zero

\* C30: every sample received by run_metrics_collector ends up in a report:
\* once the collector has stopped on the disconnection of its channel, no
\* sample it received since its last report is left unreported.
C30_StoppedCollectorReportedAll == met_pc = "stopped" => window = {}

\* C29 (checked under SpecShared): every sample passed to add_metrics is in
\* exactly one report or still held by the collector, also when add_metrics
\* runs in another thread between the reporter's generate_report and
\* clear_metrics: no sample is cleared without having been reported.
C29_NoSampleClearedUnreported ==
    \A s \in added :
        LET containing == {i \in 1..Len(reports) : s \in reports[i].samples}
        IN  /\ Cardinality(containing) <= 1
            /\ s \in Held(metrics) \/ containing # {}

----------------------------------------------------------------------------
(* Claims about the pipeline, checked under SpecPipe and SpecPipeFair *)

\* C17: while the receiver of its data channel is alive, run_processor has
\* sent on tx exactly one processed reading per reading received, in the
\* order received, and the data channel holds the last of them in that order.
C17_OneOutputPerReadingInOrder ==
    trans_pc # "done" =>
        /\ Len(proc_out) = Len(proc_in)
        /\ \A i \in 1..Len(proc_out) :
              /\ proc_out[i].timestamp = proc_in[i].timestamp
              /\ proc_out[i].sensor_id = proc_in[i].sensor_id
        /\ Len(data_ch) <= Len(proc_out)
        /\ data_ch = SubSeq(proc_out, Len(proc_out) - Len(data_ch) + 1, Len(proc_out))

\* two readings of different sensors forwarded, both still in the data channel
C17_Witness ==
    /\ trans_pc # "done"
    /\ Len(data_ch) = 2
    /\ proc_out[1].sensor_id # proc_out[2].sensor_id

C19_FailedSendKeepsStageRunning == send_failures > 0 => amqp_pc = "run"

\* C20: once ReceiverTask::run has stored the k-th reading it received, the
\* slot holds that reading; the slot never goes back to empty; the receiver
\* holds the lock of the slot only between taking it and the write, and never
\* together with the lock of the metrics.
C20_SlotHoldsLatestLocksDisjoint ==
    /\ [](/\ (handled # <<>> /\ recv_pc \notin {"slot", "write"})
              => shared_sensor_data = handled[Len(handled)]
          /\ (slot_lock = "receiver") <=> (recv_pc = "write")
          /\ ~(slot_lock = "receiver" /\ metrics_lock = "receiver"))
    /\ [][shared_sensor_data # NoData => shared_sensor_data' # NoData]_vars

\* the second reading is in the slot while the receiver holds the metrics lock
C20_Witness ==
    /\ Len(handled) = 2
    /\ recv_pc = "push"
    /\ metrics_lock = "receiver"
    /\ shared_sensor_data = handled[2]
    /\ shared_sensor_data # handled[1]

----------------------------------------------------------------------------
(* Claims about the two-thread program of main.rs, checked under SpecMain *)

\* C21: a stage whose channel to its peer is disconnected logs and leaves its
\* loop, so it meets the disconnection once only: the sensor stage records at
\* most one send error on the sensor channel and the actuator stage at most
\* one receive error.
C21_DisconnectedStageExits == a_send_errors <= 1 /\ b_receive_errors <= 1

\* the sensor stage is in its send on the full sensor channel
SensorBlocked ==
    student_a = "send" /\ student_b # "panicked" /\ Len(main_sensor_ch) = QueueCapacity

\* the actuator stage is in its send on the full feedback channel
ActuatorBlocked ==
    student_b = "feedback" /\ student_a # "panicked"
        /\ Len(main_feedback_ch) = QueueCapacity

\* C28: the sensor is never blocked sending on the full sensor queue while the
\* actuator is blocked sending on the full feedback queue.
C28_NoMutualBlocking == ~(SensorBlocked /\ ActuatorBlocked)

\* the actuator is blocked on the full feedback queue while the sensor is in
\* its send on the sensor queue, which has room
C28_Witness == ActuatorBlocked /\ student_a = "send"

----------------------------------------------------------------------------
(* Claims about the consumer of the command queue *)

----------------------------------------------------------------------------
(* Claims about the two stages of main.rs, checked under SpecMain *)

\* C33: whenever the actuator stage selects a command for execution its queue holds
\* at most one command, the one created in this iteration; outside an iteration the
\* queue is empty; the sort leaves the queue in push order and the purge removes
\* nothing.
C33_QueueHoldsAtMostOneCommand ==
    /\ [](/\ student_b = "execute" => Len(b_command_queue) <= 1
          /\ student_b # "execute" => b_command_queue = <<>>)
    /\ [][/\ (student_b = "recv" /\ student_b' = "execute" /\ main_sensor_ch # <<>>)
               => b_command_queue' = <<ArmCommand(Head(main_sensor_ch))>>
          /\ (student_b = "execute" /\ student_b' = "feedback")
               => b_command' = Head(b_command_queue)
          /\ (student_b \in {"feedback", "backoff_send"} /\ student_b' = "recv")
               => b_command_queue' = b_command_queue]_vars

\* a second command has been taken for execution while the feedback of the first
\* is still in the feedback channel
C33_Witness ==
    /\ student_b = "feedback"
    /\ b_command.grip_force = 55
    /\ main_feedback_ch # <<>>
    /\ main_feedback_ch[1].current_force = 45

\* C37: in both stages consecutive_errors is the number of channel errors since the
\* last success (a successful send or receive, on the sensor side also a received
\* feedback), and a stage is in its 100 ms backoff only when that number is above 10.
C37_BackoffOnlyAboveTenConsecutiveErrors ==
    /\ a_consecutive_errors = a_errors_since_success
    /\ b_consecutive_errors = b_errors_since_success
    /\ student_a = "backoff" => a_errors_since_success > MaxConsecutiveErrors
    /\ student_b \in {"backoff_recv", "backoff_send"}
          => b_errors_since_success > MaxConsecutiveErrors
    /\ (student_a = "top" /\ a_sample.sent) => a_consecutive_errors = 0

\* the actuator stage sleeps its backoff at the eleventh channel error in a row: a
\* failed feedback send followed by ten receive errors
C37_Witness ==
    /\ student_b = "backoff_recv"
    /\ b_consecutive_errors = MaxConsecutiveErrors + 1
    /\ b_send_errors = 1
    /\ b_receive_errors = MaxConsecutiveErrors

\* C38: a sample in which two or more anomalies were detected is not sent and has no
\* transmission time recorded, while its processing time is recorded; a sample is sent
\* only with at most one anomaly, and a transmission time is recorded only for a sample
\* that was sent.
C38_MultipleAnomaliesNeverTransmitted ==
    /\ a_sample.anomalies >= 2 =>
          /\ ~a_sample.sent
          /\ ~a_sample.transmission_time
          /\ a_sample.processing_time
          /\ student_a \notin {"send", "backoff"}
    /\ a_sample.sent => a_sample.anomalies <= 1
    /\ a_sample.transmission_time => a_sample.sent
    /\ student_a = "send" => a_sample.processing_time /\ a_sample.anomalies <= 1

\* a sample with two anomalies was skipped after an earlier sample had been sent
C38_Witness ==
    /\ a_sample.anomalies = 2
    /\ a_sample.processing_time
    /\ student_a = "top"
    /\ main_sensor_ch # <<>>

----------------------------------------------------------------------------
(* Claims about RoboticArm::apply_force, checked under SpecArm *)

\* C39: after any sequence of apply_force calls current_force is at most max_force; a
\* force above max_force is stored as max_force and reported Overloaded, any other
\* force is stored as given and reported Normal; the feedback's status is Overloaded
\* when the force status is, and the status of the arm update otherwise.
C39_CurrentForceAtMostMaxForce ==
    /\ arm_current_force <= MaxForce
    /\ arm_calls # <<>> =>
          LET call == arm_calls[Len(arm_calls)]
          IN  /\ call.force > MaxForce =>
                    /\ arm_current_force = MaxForce
                    /\ call.force_status = "Overloaded"
                    /\ b_feedback.status = "Overloaded"
              /\ call.force <= MaxForce =>
                    /\ arm_current_force = call.force
                    /\ call.force_status = "Normal"
                    /\ b_feedback.status = call.arm_status
              /\ b_feedback.current_force = arm_current_force

\* a force above max_force applied after a force below it, the arm update asking for
\* calibration
C39_Witness ==
    /\ Len(arm_calls) = 2
    /\ arm_calls[1].force = 50
    /\ arm_calls[2].force = 120
    /\ arm_calls[2].arm_status = "CalibrationNeeded"
    /\ b_feedback.status = "Overloaded"

----------------------------------------------------------------------------
(* Claims about the two PID controllers, checked under SpecPIDPair *)

\* C34: built with the same gains and given the same dt at every call, the
\* PIDController of main.rs and the PIDController of actuator/controller.rs return the
\* same value and hold the same previous error and integral after every sequence of
\* (setpoint, measurement) inputs.
C34_ControllersEquivalent ==
    /\ main_pid_out = pid_out
    /\ main_pid.previous_error = pid.prev_error
    /\ main_pid.integral = pid.integral
    /\ <<main_pid.kp, main_pid.ki, main_pid.kd>> = <<pid.kp, pid.ki, pid.kd>>

\* three calls with all three gains non-zero and a dt of one half, the error having
\* changed sign, so that the integral and the derivative both weigh in the output
C34_Witness ==
    /\ Len(pid_hist) = 3
    /\ main_pid.dt = Rat(1, 2)
    /\ main_pid.kp = One /\ main_pid.ki = Rat(1, 10) /\ main_pid.kd = One
    /\ pid_hist[2].measurement = <<12, 1>>
    /\ pid_hist[3].measurement = <<7, 1>>
    /\ main_pid.integral # Zero
    /\ main_pid_out # NoOutput

----------------------------------------------------------------------------
(* Claims about DataTransmitter, checked under SpecTransmitter *)

\* the connection type needs a setting that was not given
Unconfigured(t) ==
    \/ t.connection_type = "TcpSocket" /\ ~t.endpoint
    \/ t.connection_type = "SharedMemory" /\ ~t.shared_mem_name

\* C36: connected turns true only in a connect call that returns Ok; a connect call on
\* a transmitter whose TCP endpoint or shared-memory name is not configured returns an
\* error and leaves connected false; a send_data or receive_feedback call made while
\* connected is false returns an error and uses no transport.
C36_ConnectedOnlyThroughConnect ==
    /\ [](/\ transmitter.connected => ~Unconfigured(transmitter)
          /\ (transmitter.tcp_connection => transmitter.connected)
          /\ (dt_result.op \in {"send_data", "receive_feedback"} /\ ~transmitter.connected)
                => (~dt_result.ok /\ dt_result.transport = "none"))
    /\ [][/\ (~transmitter.connected /\ transmitter'.connected)
               => (dt_calls' = dt_calls + 1 /\ dt_result'.op = "connect" /\ dt_result'.ok)
          /\ (dt_calls' = dt_calls + 1 /\ dt_result'.op = "connect"
                 /\ Unconfigured(transmitter))
               => (~dt_result'.ok /\ ~transmitter'.connected
                      /\ dt_result'.transport = "none")
          /\ (dt_calls' = dt_calls + 1 /\ dt_result'.op # "connect")
               => transmitter' = transmitter]_vars

\* a TCP transmitter without endpoint was refused by connect, and the send_data that
\* followed returned its error without using a transport
C36_Witness ==
    /\ transmitter.connection_type = "TcpSocket"
    /\ ~transmitter.endpoint
    /\ ~transmitter.connected
    /\ dt_calls = 2
    /\ dt_result = [op |-> "send_data", ok |-> FALSE, transport |-> "none"]

----------------------------------------------------------------------------
(* Claims about the metrics sends of the stages, checked under SpecPipeMet *)

\* C35: a stage leaves its loop only on a closed data channel, never on a failed
\* metrics send: the generator only once the processor is gone, the processor only
\* once the transmitter is gone or its input is closed and drained, the transmitter
\* only once the receiver is gone or its input is closed and drained; with the metrics
\* receiver gone, a reading taken by the processor or the transmitter is still
\* forwarded while the next stage is there.
C35_FailedMetricsSendNeverStopsStage ==
    [][/\ (sensor_open /\ ~sensor_open') => proc_pc = "done"
       /\ (proc_pc = "run" /\ proc_pc' = "done")
            => (trans_pc = "done" \/ (~sensor_open /\ sensor_rx = <<>>))
       /\ (trans_pc = "run" /\ trans_pc' = "done")
            => (recv_pc = "done" \/ (proc_pc = "done" /\ data_ch = <<>>))
       /\ (met_pc = "stopped" /\ Len(proc_in') > Len(proc_in) /\ trans_pc # "done")
            => (Len(proc_out') = Len(proc_out) + 1 /\ proc_pc' = "run")
       /\ (met_pc = "stopped" /\ Len(data_ch') < Len(data_ch) /\ recv_pc # "done")
            => (Len(act_ch') = Len(act_ch) + 1 /\ trans_pc' = "run")
       /\ (met_pc = "stopped" /\ sensor_open /\ generated' = generated /\ sensor_rx' = sensor_rx
              /\ met_pc' = met_pc /\ proc_pc # "done")
            => sensor_open']_vars

\* the metrics receiver was dropped before any stage sent a sample on the channel
\* (the one sample numbered so far is the one ReceiverTask added under its lock), and
\* two readings still went through the generator, the processor and the transmitter
C35_Witness ==
    /\ met_pc = "stopped"
    /\ met_sent <= 1
    /\ generated = 2
    /\ Len(proc_out) = 2
    /\ Len(handled) = 2
    /\ sensor_open /\ proc_pc = "run" /\ trans_pc = "run"

====
